---- MODULE Spec2Model ----
(***************************************************************************)
(* Model of the SG200 / Netgear scraping engine.                           *)
(*                                                                         *)
(*   src/collector-1.1/scrapers/sg200_client.py   login, csb prefix,       *)
(*                                                page locator, decoders,  *)
(*                                                fetch_mac_table,         *)
(*                                                fetch_system_summary     *)
(*   src/scraper/scrapers/netgear_client.py       access-control decoder   *)
(*   src/collector-1.1/collector.py               HTTP front end           *)
(*   src/SG200/app/data/sg200_poll.py             poll script              *)
(*                                                                         *)
(* A Python str is modelled as a sequence of tokens.  A token is a single  *)
(* character ("a", ":", "*", " ") or an opaque chunk of text that holds no *)
(* delimiter, no whitespace and no hex-only content ("Allowed").           *)
(***************************************************************************)
EXTENDS Integers, Sequences, FiniteSets, TLC

VARIABLES
    \* _format_mac / _normalize_mac applied to one input string
    mac_in, fmt_out, norm_out,
    \* _parse_dynamic_mac_table applied to one document
    inputs, entries,
    \* parse_access_control_html applied to one text
    html_text, devices, ng_pc, ng_pos, ng_log, ng_out,
    \* fetch_mac_table / fetch_system_summary: one call
    op,            \* "mac_table" or "system_summary"
    pc,            \* position in the function
    exc,           \* the exception propagating out of the try block, or NoExc
    browser,       \* "none", "open", "closed" (browser.close() returned), "stopped"
    close_calls,   \* number of browser.close() invocations
    net_log,       \* page.goto and context.request.get calls, in order
    nav_out,       \* history: how the last required page.goto ended, until the
                   \* step after the next one
    login_frames,  \* page.frames as _perform_login finds them
    login_acts,    \* fill / click / press / wait actions of _perform_login, in order
    frame_urls,    \* frame.url of page.frames as _detect_csb_prefix finds them
    page_url,      \* page.url
    prefix,        \* the csbXXXXXX token, or None
    frame_docs,    \* fr.content() of page.frames as the page locator finds them
    page_doc,      \* page.content() after the last navigation
    loc_i,         \* index of the next candidate URL
    html,          \* the page locator's return value
    fp_at_call,    \* history: a frame held the fingerprint when the locator was called
    fp_seen,       \* history: a document the locator read held the fingerprint
    loc_outs,      \* history: the outcomes of the candidate navigations so far
    portdb,        \* outcome of the portDB.xml request
    port_name_by_ifindex,
    rows,          \* the list fetch_mac_table builds ("result" in the source)
    result,        \* what the call returned or raised
    \* the system-summary route: fetch_system_summary's tail applied to one
    \* located document, then the HTTP layer applied to its result
    sum_html, sum_out, http_out,
    \* the HTTP front end (collector.py): one request under one configuration
    fe_cfg,        \* ALLOWED_IPS, COLLECTOR_TOKEN, COLLECTOR_TOKEN_SHA256
    fe_req,        \* route, request.remote_addr, X-Collector-Token, JSON body
    fe_pc,         \* position in the route function
    fe_seen,       \* history: the configuration values consulted, in order
    fe_calls,      \* history: the scraper functions invoked
    fe_resp,       \* status code of the answer, 0 while there is none
    \* the poll script (sg200_poll.py): one run
    params,        \* the configuration the host passes to the script
    lines,         \* the non-blank inventory lines, stripped
    poll_pc,       \* position in the script
    poll_i,        \* number of inventory lines the loop has taken
    endpoints,
    response,      \* the keys of the response dict
    poll_log       \* history: what happened to each line taken

fmtVars == <<mac_in, fmt_out, norm_out>>
tblVars == <<inputs, entries>>
ngVars  == <<html_text, devices, ng_pc, ng_pos, ng_log, ng_out>>
pipeVars == <<op, pc, exc, browser, close_calls, net_log, nav_out, login_frames, login_acts,
              frame_urls, page_url, prefix, frame_docs, page_doc, loc_i, html, loc_outs,
              fp_at_call, fp_seen, portdb, port_name_by_ifindex, rows, result>>
sumVars == <<sum_html, sum_out, http_out>>
feVars  == <<fe_cfg, fe_req, fe_pc, fe_seen, fe_calls, fe_resp>>
pollVars == <<params, lines, poll_pc, poll_i, endpoints, response, poll_log>>
vars    == <<fmtVars, tblVars, ngVars, pipeVars, sumVars, feVars, pollVars>>

\* Python's None where a str is expected: a token sequence no str of the model is.
None == <<"None">>

\* The result of a call: a returned value, a raised exception, or not called yet.
Unset       == [st |-> "unset", val |-> <<>>]
Returned(v) == [st |-> "returned", val |-> v]
Raised(e)   == [st |-> "raised", val |-> <<e>>]

-----------------------------------------------------------------------------
(* String primitives *)

\* " " and the no-break space "\xa0", which str.strip() and str.split() treat alike
Whitespace == {" ", "nbsp"}
HexDigits  == {"0", "1", "2", "3", "4", "5", "6", "7", "8", "9",
               "a", "b", "c", "d", "e", "f"}
Digits     == {"0", "1", "2", "3", "4", "5", "6", "7", "8", "9"}

DigitVal == ("0" :> 0) @@ ("1" :> 1) @@ ("2" :> 2) @@ ("3" :> 3) @@ ("4" :> 4)
            @@ ("5" :> 5) @@ ("6" :> 6) @@ ("7" :> 7) @@ ("8" :> 8) @@ ("9" :> 9)

LowerMap == [A |-> "a", B |-> "b", C |-> "c", D |-> "d", E |-> "e", F |-> "f",
             G |-> "g", Z |-> "z"]

\* str.lower() on one token
LowerTok(c) == IF c \in DOMAIN LowerMap THEN LowerMap[c] ELSE c

\* str.lower()
Lower(s) == [i \in 1..Len(s) |-> LowerTok(s[i])]

RECURSIVE LStrip(_, _)
LStrip(s, chars) ==
    IF s # <<>> /\ Head(s) \in chars THEN LStrip(Tail(s), chars) ELSE s

RECURSIVE RStrip(_, _)
RStrip(s, chars) ==
    IF s # <<>> /\ s[Len(s)] \in chars
    THEN RStrip(SubSeq(s, 1, Len(s) - 1), chars)
    ELSE s

\* str.strip(chars)
StripChars(s, chars) == RStrip(LStrip(s, chars), chars)

\* str.strip()
Strip(s) == StripChars(s, Whitespace)

\* str.replace(c, "")
Remove(s, c) == SelectSeq(s, LAMBDA t : t # c)

\* all(c in "0123456789abcdef" for c in s)
AllHex(s) == \A i \in 1..Len(s) : s[i] \in HexDigits

\* ":".join(s[i:i + 2] for i in range(0, len(s), 2)), for len(s) even and > 0
ColonJoin(s) ==
    [k \in 1..(Len(s) + (Len(s) \div 2) - 1) |->
        IF k % 3 = 0 THEN ":" ELSE s[k - (k \div 3)]]

RECURSIVE DigitsValue(_)
DigitsValue(s) ==
    IF s = <<>> THEN 0
    ELSE 10 * DigitsValue(SubSeq(s, 1, Len(s) - 1)) + DigitVal[s[Len(s)]]

IsDigits(s) == s # <<>> /\ \A i \in 1..Len(s) : s[i] \in Digits

Signed(t) == t # <<>> /\ Head(t) \in {"+", "-"}

\* int(s) returns: surrounding whitespace and one sign are accepted.
\* When it does not hold int(s) raises ValueError.
IsInt(s) ==
    LET t == Strip(s)
    IN  IsDigits(IF Signed(t) THEN Tail(t) ELSE t)

\* int(s), for IsInt(s)
IntOf(s) ==
    LET t == Strip(s)
    IN  IF Signed(t)
        THEN (IF Head(t) = "-" THEN 0 - DigitsValue(Tail(t)) ELSE DigitsValue(Tail(t)))
        ELSE DigitsValue(t)

RECURSIVE NatToStr(_)
NatToStr(n) ==
    LET d == CHOOSE c \in Digits : DigitVal[c] = n % 10
    IN  IF n < 10 THEN <<d>> ELSE Append(NatToStr(n \div 10), d)

\* str(n) for an int
IntToStr(n) == IF n < 0 THEN <<"-">> \o NatToStr(0 - n) ELSE NatToStr(n)

\* two 12-hex-digit MAC values as devices write them, without separators
MacA == <<"A", "A", "b", "b", "c", "c", "d", "d", "e", "e", "f", "f">>
MacB == <<"0", "0", "0", "c", "2", "9", "b", "2", "9", "4", "c", "0">>
\* a 12-character value that is not hexadecimal
MacNotHex == <<"0", "0", "0", "C", "2", "9", "b", "2", "9", "4", "c", "G">>

-----------------------------------------------------------------------------
(* MAC normalisation *)

\* _format_mac without the even-length test of line 102
FormatMac_NoParity(mac_hex) ==
    LET m == Lower(Strip(mac_hex))
    IN  IF Len(m) >= 12 THEN ColonJoin(m) ELSE m

\* collector-1.1 _format_mac
FormatMac(mac_hex) ==
    LET m == Lower(Strip(mac_hex))
    IN  IF Len(m) = 12 /\ AllHex(m) THEN ColonJoin(m)
        ELSE IF Len(m) % 2 = 0 /\ Len(m) >= 12 THEN ColonJoin(m)
        ELSE m

\* netgear _normalize_mac
NormalizeMac(raw_mac) ==
    IF raw_mac = <<>> THEN None
    ELSE LET m == Lower(Strip(Remove(Remove(raw_mac, ":"), "-")))
         IN  IF Len(m) # 12 \/ ~AllHex(m) THEN None ELSE ColonJoin(m)

-----------------------------------------------------------------------------
(* Python dict with str keys: a sequence of <<key, value>> pairs in insertion *)
(* order; assigning to an existing key keeps the key's position.              *)

DictHas(d, k) == \E i \in 1..Len(d) : d[i][1] = k

\* d[k], for k in d
DictGet(d, k) == d[CHOOSE i \in 1..Len(d) : d[i][1] = k][2]

\* d[k] = v
DictPut(d, k, v) ==
    IF DictHas(d, k)
    THEN [i \in 1..Len(d) |-> IF d[i][1] = k THEN <<k, v>> ELSE d[i]]
    ELSE Append(d, <<k, v>>)

\* list(d.keys())
DictKeys(d) == [i \in 1..Len(d) |-> d[i][1]]

-----------------------------------------------------------------------------
(* Indexed hidden-field decoder: _parse_dynamic_mac_table                  *)
(*                                                                         *)
(* An <input> element is [fam, idx, value]: its name is the text           *)
(* fam ++ "?" ++ idx, where fam holds no "?", and fam = "" stands for a    *)
(* missing or empty name attribute; value is None (no value attribute) or  *)
(* a string.                                                               *)

FamVlan == "dot1qFdbId$repeat"
FamMac  == "dot1qTpFdbAddress$repeat"
FamPort == "dot1qTpFdbPort$repeat"

EmptyMaps == [vlan_by_idx |-> <<>>, mac_by_idx |-> <<>>, port_by_idx |-> <<>>]

\* the loop body with an unparseable VLAN or port defaulted to 0, not skipped
CollectField_Defaulting(maps, inp) ==
    IF inp.fam = "" THEN maps
    ELSE
      LET value == IF inp.value = None THEN <<>> ELSE Strip(inp.value)
          int == IF IsInt(value) THEN IntOf(value) ELSE 0
      IN  CASE inp.fam = FamVlan ->
                 [maps EXCEPT !.vlan_by_idx = DictPut(@, inp.idx, int)]
            [] inp.fam = FamMac ->
                 [maps EXCEPT !.mac_by_idx = DictPut(@, inp.idx, value)]
            [] inp.fam = FamPort ->
                 [maps EXCEPT !.port_by_idx = DictPut(@, inp.idx, int)]
            [] OTHER -> maps

\* one iteration of "for inp in inputs" (lines 118-140)
CollectField(maps, inp) ==
    IF inp.fam = "" THEN maps
    ELSE
      LET value == IF inp.value = None THEN <<>> ELSE Strip(inp.value)
          idx == inp.idx
      IN  CASE inp.fam = FamVlan ->
                 IF ~IsInt(value) THEN maps
                 ELSE [maps EXCEPT !.vlan_by_idx = DictPut(@, idx, IntOf(value))]
            [] inp.fam = FamMac ->
                 [maps EXCEPT !.mac_by_idx = DictPut(@, idx, value)]
            [] inp.fam = FamPort ->
                 IF ~IsInt(value) THEN maps
                 ELSE [maps EXCEPT !.port_by_idx = DictPut(@, idx, IntOf(value))]
            [] OTHER -> maps

RECURSIVE CollectFields(_, _)
CollectFields(maps, ins) ==
    IF ins = <<>> THEN maps
    ELSE CollectFields(CollectField(maps, Head(ins)), Tail(ins))

\* insert k after every key whose int() is not greater: sorted() is stable
RECURSIVE InsertByInt(_, _)
InsertByInt(sorted, k) ==
    IF sorted = <<>> THEN <<k>>
    ELSE IF IntOf(Head(sorted)) <= IntOf(k)
         THEN <<Head(sorted)>> \o InsertByInt(Tail(sorted), k)
         ELSE <<k>> \o sorted

\* the keys left in dict insertion order, which is markup order
SortInt_InsertionOrder(keys) == keys

RECURSIVE SortInt(_)
SortInt(keys) ==
    IF keys = <<>> THEN <<>>
    ELSE InsertByInt(SortInt(SubSeq(keys, 1, Len(keys) - 1)), keys[Len(keys)])

\* sorted(keys, key=lambda x: int(x)) returns: int() raises on any other key
Sortable(keys) == \A i \in 1..Len(keys) : IsInt(keys[i])

\* the body of "for idx in sorted(...)" (lines 144-158); the entry's idx field
\* is a history field recording the repeat index the entry was built from
JoinIndex(maps, idx, switch_ip) ==
    IF \/ DictGet(maps.mac_by_idx, idx) = <<>>
       \/ ~DictHas(maps.vlan_by_idx, idx)
       \/ ~DictHas(maps.port_by_idx, idx)
    THEN <<>>
    ELSE << [vlan |-> DictGet(maps.vlan_by_idx, idx),
             mac |-> FormatMac(DictGet(maps.mac_by_idx, idx)),
             port_index |-> DictGet(maps.port_by_idx, idx),
             switch_ip |-> switch_ip,
             idx |-> idx] >>

RECURSIVE JoinAll(_, _, _)
JoinAll(maps, order, switch_ip) ==
    IF order = <<>> THEN <<>>
    ELSE JoinIndex(maps, Head(order), switch_ip)
         \o JoinAll(maps, Tail(order), switch_ip)

\* _parse_dynamic_mac_table: the list of entries, or the ValueError of line 143
ParseDynamicMacTable(ins, switch_ip) ==
    LET maps == CollectFields(EmptyMaps, ins)
        keys == DictKeys(maps.mac_by_idx)
    IN  IF ~Sortable(keys) THEN Raised("ValueError")
        ELSE Returned(JoinAll(maps, SortInt(keys), switch_ip))

-----------------------------------------------------------------------------
(* Delimited embedded-variable decoder: parse_access_control_html          *)
(*                                                                         *)
(* html_text is the sequence of the script variables the two regular       *)
(* expressions match, in text order: [kind, ord, value] is                 *)
(*   var access_control_device<ord> = "<value>"        kind = "device"     *)
(*   var access_control_device_name<ord> = "<value>"   kind = "name"       *)
(* with ord the digits \d+ captures.  devices is the dict of the function, *)
(* keyed by int(ord).                                                      *)

RouterIp == "192.168.1.7"

\* str.split(sep)
RECURSIVE Split(_, _)
Split(s, sep) ==
    IF \A i \in 1..Len(s) : s[i] # sep THEN <<s>>
    ELSE LET k == CHOOSE i \in 1..Len(s) :
                      s[i] = sep /\ \A j \in 1..(i - 1) : s[j] # sep
         IN  <<SubSeq(s, 1, k - 1)>> \o Split(SubSeq(s, k + 1, Len(s)), sep)

Entities == [lt |-> "<", gt |-> ">", amp |-> "&"]

\* html.unescape on the entities &lt; &gt; &amp;, each one token of the text
Unescape(s) ==
    [i \in 1..Len(s) |->
        CASE s[i] = "&lt;" -> Entities.lt
          [] s[i] = "&gt;" -> Entities.gt
          [] s[i] = "&amp;" -> Entities.amp
          [] OTHER -> s[i]]

\* the first loop's body with the MAC check of lines 101-104 left out
DeviceRow_KeepsBadMac(devs, m, pos) ==
    LET parts == Split(m.value, "*")
    IN  IF Len(parts) < 3 THEN devs
        ELSE DictPut(devs, DigitsValue(m.ord),
                     [router_ip |-> RouterIp,
                      ip |-> Strip(parts[2]),
                      mac |-> FormatMac(Strip(parts[3])),
                      status |-> Strip(parts[1]),
                      conn_type |-> IF Len(parts) > 3 THEN Strip(parts[4]) ELSE <<>>,
                      name |-> None,
                      src |-> pos])

\* the first loop's body reading the parts as ip, status, mac, connection type
DeviceRow_IpFirst(devs, m, pos) ==
    LET parts == Split(m.value, "*")
    IN  IF Len(parts) < 3 THEN devs
        ELSE IF NormalizeMac(Strip(parts[3])) = None THEN devs
        ELSE DictPut(devs, DigitsValue(m.ord),
                     [router_ip |-> RouterIp,
                      ip |-> Strip(parts[1]),
                      mac |-> NormalizeMac(Strip(parts[3])),
                      status |-> Strip(parts[2]),
                      conn_type |-> IF Len(parts) > 3 THEN Strip(parts[4]) ELSE <<>>,
                      name |-> None,
                      src |-> pos])

\* the first loop's body keeping the first entry of an ordinal
DeviceRow_KeepsFirst(devs, m, pos) ==
    LET parts == Split(m.value, "*")
    IN  IF Len(parts) < 3 THEN devs
        ELSE IF NormalizeMac(Strip(parts[3])) = None THEN devs
        ELSE IF DictHas(devs, DigitsValue(m.ord)) THEN devs
        ELSE DictPut(devs, DigitsValue(m.ord),
                     [router_ip |-> RouterIp,
                      ip |-> Strip(parts[2]),
                      mac |-> NormalizeMac(Strip(parts[3])),
                      status |-> Strip(parts[1]),
                      conn_type |-> IF Len(parts) > 3 THEN Strip(parts[4]) ELSE <<>>,
                      name |-> None,
                      src |-> pos])

\* the body of "for match in DEVICE_RE.finditer(html_text)" (lines 88-112);
\* src is a history field: the position of the record the entry was built from
DeviceRow(devs, m, pos) ==
    LET parts == Split(m.value, "*")
    IN  IF Len(parts) < 3 THEN devs
        ELSE IF NormalizeMac(Strip(parts[3])) = None THEN devs
        ELSE DictPut(devs, DigitsValue(m.ord),
                     [router_ip |-> RouterIp,
                      ip |-> Strip(parts[2]),
                      mac |-> NormalizeMac(Strip(parts[3])),
                      status |-> Strip(parts[1]),
                      conn_type |-> IF Len(parts) > 3 THEN Strip(parts[4]) ELSE <<>>,
                      name |-> None,
                      src |-> pos])

\* html.unescape(raw_name).strip().strip("<>"), "" standing for "or None"
CleanName(raw_name) == StripChars(Strip(Unescape(raw_name)), {"<", ">"})

\* the second loop's body without the "idx not in devices" test of line 118
NameRow_AddsOrphan(devs, m) ==
    IF CleanName(m.value) = <<>> THEN devs
    ELSE IF DictHas(devs, DigitsValue(m.ord))
    THEN DictPut(devs, DigitsValue(m.ord),
                 [DictGet(devs, DigitsValue(m.ord)) EXCEPT !.name = CleanName(m.value)])
    ELSE DictPut(devs, DigitsValue(m.ord),
                 [router_ip |-> RouterIp, ip |-> <<>>, mac |-> <<>>, status |-> <<>>,
                  conn_type |-> <<>>, name |-> CleanName(m.value), src |-> 0])

\* the body of "for match in NAME_RE.finditer(html_text)" (lines 116-125)
NameRow(devs, m) ==
    IF ~DictHas(devs, DigitsValue(m.ord)) THEN devs
    ELSE IF CleanName(m.value) = <<>> THEN devs
    ELSE DictPut(devs, DigitsValue(m.ord),
                 [DictGet(devs, DigitsValue(m.ord)) EXCEPT !.name = CleanName(m.value)])

\* positions of the matches of one pattern that come after position pos
MatchesAfter(kind, pos) ==
    {i \in (pos + 1)..Len(html_text) : html_text[i].kind = kind}

Min(S) == CHOOSE i \in S : \A j \in S : i <= j

\* one iteration of the first loop: the next match of DEVICE_RE
ParseDeviceRow ==
    /\ ng_pc = "devices"
    /\ MatchesAfter("device", ng_pos) # {}
    /\ LET i == Min(MatchesAfter("device", ng_pos))
       IN  /\ devices' = DeviceRow(devices, html_text[i], i)
           /\ ng_pos' = i
           /\ ng_log' = Append(ng_log, i)
    /\ UNCHANGED <<html_text, ng_pc, ng_out, fmtVars, sumVars, tblVars, pipeVars,
                   feVars, pollVars>>

\* DEVICE_RE.finditer is exhausted: the second loop starts from the top of the text
EndDeviceRows ==
    /\ ng_pc = "devices"
    /\ MatchesAfter("device", ng_pos) = {}
    /\ ng_pc' = "names"
    /\ ng_pos' = 0
    /\ UNCHANGED <<html_text, devices, ng_log, ng_out, fmtVars, sumVars, tblVars, pipeVars,
                   feVars, pollVars>>

\* one iteration of the second loop: the next match of NAME_RE
ApplyNameRow ==
    /\ ng_pc = "names"
    /\ MatchesAfter("name", ng_pos) # {}
    /\ LET i == Min(MatchesAfter("name", ng_pos))
       IN  /\ devices' = NameRow(devices, html_text[i])
           /\ ng_pos' = i
           /\ ng_log' = Append(ng_log, i)
    /\ UNCHANGED <<html_text, ng_pc, ng_out, fmtVars, sumVars, tblVars, pipeVars,
                   feVars, pollVars>>

\* return [asdict(d) for d in devices.values()]
ReturnDevices ==
    /\ ng_pc = "names"
    /\ MatchesAfter("name", ng_pos) = {}
    /\ ng_pc' = "done"
    /\ ng_out' = Returned([i \in 1..Len(devices) |-> devices[i][2]])
    /\ UNCHANGED <<html_text, devices, ng_pos, ng_log, fmtVars, sumVars, tblVars, pipeVars,
                   feVars, pollVars>>

(* Inputs: up to MaxRecords script variables *)

MaxRecords == 3

Fact4 == <<"Allowed", "*", "192.168.1.199", "*">> \o MacB \o <<"*", "wired">>
Fact3 == <<"Blocked", " ", "*", " ", "192.168.1.20", "*", " ",
           "A", "A", "-", "B", "B", "-", "C", "C", "-", "D", "D", "-", "E", "E", "-",
           "F", "F">>
FactBadMac == <<"Allowed", "*", "192.168.1.30", "*",
                "0", "0", "0", "c", "2", "9", "b", "2", "9", "4", "c", "g",
                "*", "wireless">>
Fact2 == <<"Allowed", "*", "192.168.1.40">>

NameRecords ==
    { [kind |-> "name", ord |-> o, value |-> v] :
        o \in {<<"1">>, <<"2">>},
        v \in {<<"DESKTOP-EXAMPLE">>, <<"&lt;", "Unknown", "&gt;">>, <<"&lt;", "&gt;">>} }
    \cup {[kind |-> "name", ord |-> <<"0", "1">>, value |-> <<"NAS">>]}

DeviceRecords ==
    { [kind |-> "device", ord |-> o, value |-> v] :
        o \in {<<"1">>, <<"2">>}, v \in {Fact4, Fact3, FactBadMac, Fact2} }
    \cup {[kind |-> "device", ord |-> <<"0", "1">>, value |-> Fact4]}

Texts == UNION { [1..n -> NameRecords \cup DeviceRecords] : n \in 0..MaxRecords }

-----------------------------------------------------------------------------
(* Inputs of the MAC normalisers: up to MaxPairs two-character groups,     *)
(* written without separator, with ":" or with "-", optionally followed by *)
(* one more token.                                                         *)

MaxPairs == 7

PairSet == {<<"0", "c">>, <<"a", "f">>, <<"A", "F">>}
SepSet  == {<<>>, <<":">>, <<"-">>}
TailSet == {<<>>, <<"z">>, <<" ">>}

RECURSIVE JoinPairs(_, _)
JoinPairs(pairs, sep) ==
    IF pairs = <<>> THEN <<>>
    ELSE IF Len(pairs) = 1 THEN Head(pairs)
    ELSE Head(pairs) \o sep \o JoinPairs(Tail(pairs), sep)

\* the groups ps joined by sep and followed by tl
MacInput(ps, sep, tl) == JoinPairs(ps, sep) \o tl

FmtIdle == mac_in = <<>> /\ fmt_out = Unset /\ norm_out = Unset

\* a call of _format_mac(mac_in)
CallFormatMac ==
    /\ fmt_out.st = "unset"
    /\ fmt_out' = Returned(FormatMac(mac_in))
    /\ UNCHANGED <<mac_in, norm_out, tblVars, ngVars, pipeVars, sumVars, feVars, pollVars>>

\* a call of _normalize_mac(mac_in)
CallNormalizeMac ==
    /\ norm_out.st = "unset"
    /\ norm_out' = Returned(NormalizeMac(mac_in))
    /\ UNCHANGED <<mac_in, fmt_out, tblVars, ngVars, pipeVars, sumVars, feVars, pollVars>>

-----------------------------------------------------------------------------
(* Inputs of the hidden-field decoder: a document holds, for each slot     *)
(* (family, index), at most one field with one of the slot's values, in    *)
(* markup order or reversed, followed by up to MaxExtra further fields.    *)

MaxExtra == 1

SwitchIp == "192.168.0.221"

Absent == <<"absent">>
Bad  == <<"z", "z">>

Field(fam, idx, value) == [fam |-> fam, idx |-> idx, value |-> value]

SlotFields(sel) ==
    << Field(FamVlan, <<"2">>, sel[1]),
       Field(FamMac, <<"2">>, sel[2]),
       Field(FamPort, <<"2">>, sel[3]),
       Field(FamVlan, <<"1", "0">>, sel[4]),
       Field(FamMac, <<"1", "0">>, sel[5]),
       Field(FamPort, <<"1", "0">>, sel[6]),
       Field(FamMac, <<"x">>, sel[7]) >>

SlotChoices ==
    {Absent, <<"1", "0">>, <<"0">>, <<"v">>}
    \X {Absent, MacA, Bad, MacNotHex, None}
    \X {Absent, <<"5", "2">>, <<"p">>}
    \X {Absent, <<"7">>}
    \X {Absent, MacB}
    \X {Absent, <<"7", "3">>}
    \X {Absent, MacA}

ExtraFields ==
    { Field(FamVlan, <<"2">>, <<"v">>),
      Field(FamMac, <<"2">>, None),
      Field(FamMac, <<"2">>, Bad),
      Field(FamPort, <<"2">>, <<"7">>),
      Field("", <<>>, <<"7">>),
      Field("sysName", <<>>, <<"s", "w">>) }

Reverse(s) == [i \in 1..Len(s) |-> s[Len(s) + 1 - i]]

Present(fields) == SelectSeq(fields, LAMBDA f : f.value # Absent)

Documents ==
    { (IF rev THEN Reverse(Present(SlotFields(sel))) ELSE Present(SlotFields(sel))) \o ex
      : sel \in SlotChoices, rev \in BOOLEAN,
        ex \in UNION { [1..n -> ExtraFields] : n \in 0..MaxExtra } }

TblIdle == inputs = <<>> /\ entries = Unset

\* a call of _parse_dynamic_mac_table(inputs, switch_ip)
CallParseDynamicMacTable ==
    /\ entries.st = "unset"
    /\ entries' = ParseDynamicMacTable(inputs, SwitchIp)
    /\ UNCHANGED <<inputs, fmtVars, sumVars, ngVars, pipeVars, feVars, pollVars>>

-----------------------------------------------------------------------------
(* fetch_mac_table and fetch_system_summary                                *)
(*                                                                         *)
(* The device and the browser are the environment: what a navigation, a    *)
(* query or a read gives is chosen when the program asks for it.           *)

NoExc == ""

\* page.goto: returns, raises PlaywrightTimeoutError, raises another error
NavOutcomes == {"ok", "timeout", "error"}

MaxFrames == 2

(* ---- _perform_login ---- *)

\* What the selectors of _perform_login find in one frame:
\*   pw     input[type='password'] in the frame scan: "found", "none", "raises"
\*   pw2    the same selector asked again at line 57: "found", "none"
\*   text   input[type='text'], input[type='email'] exists
\*   other  input:not([type='password']) exists (a text input is one)
\*   btn    input[type='submit'], button, input[type='button'] exists
LoginFrame(pw, pw2, text, other, btn) ==
    [pw |-> pw, pw2 |-> pw2, text |-> text, other |-> other, btn |-> btn]

LoginFrameKinds ==
    { LoginFrame("none", "none", FALSE, FALSE, FALSE),
      LoginFrame("none", "none", TRUE, TRUE, TRUE),
      LoginFrame("raises", "found", TRUE, TRUE, TRUE),
      LoginFrame("found", "none", TRUE, TRUE, TRUE),
      LoginFrame("found", "found", TRUE, TRUE, TRUE),
      LoginFrame("found", "found", TRUE, TRUE, FALSE),
      LoginFrame("found", "found", FALSE, TRUE, TRUE),
      LoginFrame("found", "found", FALSE, TRUE, FALSE),
      LoginFrame("found", "found", FALSE, FALSE, TRUE) }

LoginViews == UNION { [1..n -> LoginFrameKinds] : n \in 1..MaxFrames }

\* the frame scan of lines 44-51: a selector that raises counts as no field
PasswordFound(frame) == frame.pw = "found"

\* the main frame taken for the login frame without looking for a password field
LoginFrameIndex_MainFrame(frames) == 1

\* index of the login frame, 0 for login_frame = None
LoginFrameIndex(frames) ==
    IF \E i \in 1..Len(frames) : PasswordFound(frames[i])
    THEN CHOOSE i \in 1..Len(frames) :
            PasswordFound(frames[i]) /\ \A j \in 1..(i - 1) : ~PasswordFound(frames[j])
    ELSE 0

Act(act, target) == [act |-> act, target |-> target]

\* the submit control is clicked and Enter is pressed as well
LoginInFrame_ClickAndEnter(f) ==
    IF f.pw2 = "none" THEN [acts |-> <<>>, err |-> "RuntimeError"]
    ELSE IF ~f.text /\ ~f.other THEN [acts |-> <<>>, err |-> "RuntimeError"]
    ELSE [acts |-> << Act("fill", IF f.text THEN "text_input" ELSE "first_other_input"),
                      Act("fill", "password") >>
                   \o (IF f.btn THEN << Act("click", "submit_control") >> ELSE <<>>)
                   \o << Act("press_Enter", "password"),
                         Act("wait_for_timeout", "4000") >>,
          err |-> NoExc]

\* the two selectors of lines 61-63 tried in the opposite order
LoginInFrame_OtherFirst(f) ==
    IF f.pw2 = "none" THEN [acts |-> <<>>, err |-> "RuntimeError"]
    ELSE IF ~f.text /\ ~f.other THEN [acts |-> <<>>, err |-> "RuntimeError"]
    ELSE [acts |-> << Act("fill", IF f.other THEN "first_other_input" ELSE "text_input"),
                      Act("fill", "password"),
                      IF f.btn THEN Act("click", "submit_control")
                               ELSE Act("press_Enter", "password"),
                      Act("wait_for_timeout", "4000") >>,
          err |-> NoExc]

\* lines 57-77, for the login frame f: the actions performed and the error raised
LoginInFrame(f) ==
    IF f.pw2 = "none" THEN [acts |-> <<>>, err |-> "RuntimeError"]
    ELSE IF ~f.text /\ ~f.other THEN [acts |-> <<>>, err |-> "RuntimeError"]
    ELSE [acts |-> << Act("fill", IF f.text THEN "text_input" ELSE "first_other_input"),
                      Act("fill", "password"),
                      IF f.btn THEN Act("click", "submit_control")
                               ELSE Act("press_Enter", "password"),
                      Act("wait_for_timeout", "4000") >>,
          err |-> NoExc]

\* _perform_login
PerformLogin(frames) ==
    IF LoginFrameIndex(frames) = 0 THEN [acts |-> <<>>, err |-> NoExc]
    ELSE LoginInFrame(frames[LoginFrameIndex(frames)])

(* ---- _detect_csb_prefix ---- *)

\* A URL is the sequence of its path segments, each followed by "/" but the
\* last; a segment is a token sequence.  "" and None are the empty sequence.
UrlNone    == <<>>
UrlCsb1    == << <<"csb", "1", "a">>, <<"home.htm">> >>
UrlCsb2    == << <<"config">>, <<"csb", "F", "0">>, <<"x.htm">> >>
UrlNotHex  == << <<"csb", "z">>, <<"home.htm">> >>
UrlLastSeg == << <<"csb", "1", "a">> >>

Urls == {UrlNone, UrlCsb1, UrlCsb2, UrlNotHex, UrlLastSeg}

UrlViews == UNION { [1..n -> Urls] : n \in 1..MaxFrames }

\* the segment is csb followed by one or more hex digits
IsCsbToken(seg) ==
    /\ Len(seg) >= 2 /\ seg[1] = "csb"
    /\ \A k \in 2..Len(seg) : LowerTok(seg[k]) \in HexDigits

\* positions where r"/(csb[0-9a-fA-F]+)/" matches in the URL
CsbMatches(url) == {k \in 1..(Len(url) - 1) : IsCsbToken(url[k])}

\* pattern.search(url).group(1), for a URL with a match
CsbOf(url) == url[Min(CsbMatches(url))]

\* _detect_csb_prefix returns (it raises RuntimeError otherwise)
PrefixFound(urls, purl) ==
    (\E i \in 1..Len(urls) : CsbMatches(urls[i]) # {}) \/ CsbMatches(purl) # {}

\* the page URL consulted before the frames
DetectCsbPrefix_PageFirst(urls, purl) ==
    IF CsbMatches(purl) # {} THEN CsbOf(purl)
    ELSE CsbOf(urls[CHOOSE i \in 1..Len(urls) :
                      /\ CsbMatches(urls[i]) # {}
                      /\ \A j \in 1..(i - 1) : CsbMatches(urls[j]) = {}])

\* _detect_csb_prefix, when it returns
DetectCsbPrefix(urls, purl) ==
    IF \E i \in 1..Len(urls) : CsbMatches(urls[i]) # {}
    THEN CsbOf(urls[CHOOSE i \in 1..Len(urls) :
                      /\ CsbMatches(urls[i]) # {}
                      /\ \A j \in 1..(i - 1) : CsbMatches(urls[j]) = {}])
    ELSE CsbOf(purl)

(* ---- documents ---- *)

\* A document is [id, fields, text]: its <input> elements as [name, value]
\* in markup order, and the fingerprint strings that occur in the rest of its
\* markup.  NoHtml is None, EmptyHtml is "", and a frame whose content()
\* raises holds DocDetached.
FpSerial == "rlPhdUnitGenParamSerialNum$repeat?1"
FpSwVer  == "rlPhdUnitGenParamSwVer$repeat?1"

Doc(id, fields, text) == [id |-> id, fields |-> fields, text |-> text]
Input(name, value) == [name |-> name, value |-> value]

NoHtml      == Doc("None", <<>>, {})
EmptyHtml   == Doc("empty", <<>>, {})
DocDetached == Doc("detached", <<>>, {})
DocPlain    == Doc("plain", << Input("sysName", <<"sw1">>) >>, {})
DocSummary  == Doc("summary",
                   << Input("sysName", <<"sw1">>),
                      Input("sysDescr$scalar", <<"24-Port", "nbsp", " ", "Switch">>),
                      Input("rndImage1Version$repeat?1", <<"1.4.8">>),
                      Input(FpSerial, <<"DNI161702F3">>) >>, {})
DocMarkerOnly == Doc("marker_only", << Input(FpSwVer, <<" ">>) >>, {FpSerial})

FrameDocs == {DocPlain, DocSummary, DocMarkerOnly, DocDetached}

DocViews == UNION { [1..n -> FrameDocs] : n \in 1..MaxFrames }

\* content() returns
Readable(doc) == doc.id # "detached"

\* _looks_like_system_summary
LooksLikeSystemSummary(h) ==
    /\ h.id \notin {"None", "empty"}
    /\ \E m \in {FpSerial, FpSwVer} :
          m \in h.text \/ \E i \in 1..Len(h.fields) : h.fields[i].name = m

(* ---- try / finally ---- *)

\* the try block left on an exception skips the finally clause
ExitTry_SkipsFinallyOnError(e) == IF e = NoExc THEN "finally" ELSE "with_exit"

\* where control goes when the try block of lines 375-424 (442-459) is left,
\* normally (e = NoExc) or by exception e: the finally clause runs
ExitTry(e) == "finally"

\* a timeout of a required navigation propagates like any other error
RequiredNav_TimeoutRaises(out) == IF out = "ok" THEN NoExc ELSE "Error"

\* lines 376-379, 399-402, 443-446: only PlaywrightTimeoutError is swallowed
RequiredNav(out) == IF out = "error" THEN "Error" ELSE NoExc

Goto(url, n) == [call |-> "goto", url |-> url, n |-> n]
Get(url)     == [call |-> "get", url |-> url, n |-> 0]

pageObs == <<login_frames, frame_urls, page_url, frame_docs, page_doc>>
locVars == <<loc_i, html, fp_at_call, fp_seen, loc_outs>>
macVars == <<portdb, port_name_by_ifindex, rows, inputs, entries>>

\* sync_playwright(), chromium.launch, new_context, new_page (lines 370-373,
\* 437-440): a failure of new_context or new_page leaves the with block
Launch ==
    /\ pc = "start"
    /\ browser' = "open"
    /\ \E ok \in BOOLEAN :
          IF ok THEN pc' = "goto_base" /\ exc' = exc
                ELSE pc' = "with_exit" /\ exc' = "Error"
    /\ UNCHANGED <<op, nav_out, close_calls, net_log, login_acts, prefix, result,
                   pageObs, locVars, macVars, fmtVars, sumVars, ngVars, feVars, pollVars>>

\* page.goto(base_http_url) (lines 376-379, 443-446)
GotoBase ==
    /\ pc = "goto_base"
    /\ \E out \in NavOutcomes, frames \in LoginViews :
          /\ net_log' = Append(net_log, Goto("base", 0))
          /\ login_frames' = frames
          /\ nav_out' = out
          /\ exc' = RequiredNav(out)
          /\ pc' = IF RequiredNav(out) # NoExc THEN ExitTry(RequiredNav(out)) ELSE "login"
    /\ UNCHANGED <<op, browser, close_calls, login_acts, prefix, result,
                   frame_urls, page_url, frame_docs, page_doc,
                   locVars, macVars, fmtVars, sumVars, ngVars, feVars, pollVars>>

\* _perform_login(page, username, password) (lines 381, 448)
Login ==
    /\ pc = "login"
    /\ login_acts' = PerformLogin(login_frames).acts
    /\ exc' = PerformLogin(login_frames).err
    /\ pc' = IF PerformLogin(login_frames).err # NoExc
             THEN ExitTry(PerformLogin(login_frames).err) ELSE "settle"
    /\ UNCHANGED <<op, nav_out, browser, close_calls, net_log, prefix, result,
                   pageObs, locVars, macVars, fmtVars, sumVars, ngVars, feVars, pollVars>>

\* page.wait_for_timeout(3000) (lines 382, 449): the frameset the device
\* serves after authentication loads, the login page is gone
Settle ==
    /\ pc = "settle"
    /\ login_frames' = <<>>
    /\ nav_out' = "none"
    /\ pc' = "detect"
    /\ UNCHANGED <<op, exc, browser, close_calls, net_log, login_acts, prefix, result,
                   frame_urls, page_url, frame_docs, page_doc, locVars, macVars,
                   fmtVars, sumVars, ngVars, feVars, pollVars>>

\* the step goes on without a token when no URL matches
Detect_IgnoresMissingPrefix ==
    /\ pc = "detect"
    /\ \E urls \in UrlViews, purl \in Urls :
          /\ frame_urls' = urls
          /\ page_url' = purl
          /\ prefix' = IF PrefixFound(urls, purl) THEN DetectCsbPrefix(urls, purl)
                       ELSE prefix
    /\ pc' = IF op = "mac_table" THEN "portdb" ELSE "loc_call"
    /\ UNCHANGED <<op, nav_out, exc, browser, close_calls, net_log, login_acts, result,
                   login_frames, frame_docs, page_doc, locVars, macVars, fmtVars,
                   sumVars, ngVars, feVars, pollVars>>

\* prefix = _detect_csb_prefix(page) (lines 384, 451), which finds the frame
\* URLs urls and the page URL purl
Detect ==
    /\ pc = "detect"
    /\ \E urls \in UrlViews, purl \in Urls :
          /\ frame_urls' = urls
          /\ page_url' = purl
          /\ IF PrefixFound(urls, purl)
             THEN /\ prefix' = DetectCsbPrefix(urls, purl)
                  /\ exc' = exc
                  /\ pc' = IF op = "mac_table" THEN "portdb" ELSE "loc_call"
             ELSE /\ prefix' = prefix
                  /\ exc' = "RuntimeError"
                  /\ pc' = ExitTry("RuntimeError")
    /\ UNCHANGED <<op, nav_out, browser, close_calls, net_log, login_acts, result,
                   login_frames, frame_docs, page_doc, locVars, macVars, fmtVars,
                   sumVars, ngVars, feVars, pollVars>>

\* finally: browser.close(), whose own exception is swallowed (lines 420-424, 455-459)
Finally ==
    /\ pc = "finally"
    /\ close_calls' = close_calls + 1
    /\ \E closed \in BOOLEAN : browser' = IF closed THEN "closed" ELSE "open"
    /\ pc' = "with_exit"
    /\ UNCHANGED <<op, nav_out, exc, net_log, login_acts, prefix, result,
                   pageObs, locVars, macVars, fmtVars, sumVars, ngVars, feVars, pollVars>>

\* the end of "with sync_playwright() as p": Playwright stops and takes a
\* browser that is still open with it; then the exception propagates, or
\* fetch_mac_table returns result (line 426), or fetch_system_summary goes on
WithExit ==
    /\ pc = "with_exit"
    /\ browser' = IF browser = "open" THEN "stopped" ELSE browser
    /\ IF exc # NoExc THEN pc' = "done" /\ result' = Raised(exc)
       ELSE IF op = "mac_table" THEN pc' = "done" /\ result' = Returned(rows)
       ELSE pc' = "summary_tail" /\ result' = result
    /\ UNCHANGED <<op, nav_out, exc, close_calls, net_log, login_acts, prefix,
                   pageObs, locVars, macVars, fmtVars, sumVars, ngVars, feVars, pollVars>>

(* ---- portDB.xml and the port names ---- *)

MaxPorts == 2

\* portDB.xml: [kind, ports]; kind is "empty" (no text), "malformed"
\* (ET.fromstring raises) or "tree", with its <port> elements as
\* [ifIndex, portName], each the element's text or None for a missing element
PortEl(ifIndex, portName) == [ifIndex |-> ifIndex, portName |-> portName]

PortEls ==
    { PortEl(<<"5", "2">>, <<"GE1">>),
      PortEl(<<" ", "7", "3">>, <<" ", "GE2", " ">>),
      PortEl(<<"x">>, <<"GE3">>),
      PortEl(None, <<"GE4">>),
      PortEl(<<"5", "2">>, <<" ">>) }

XmlDocs ==
    { [kind |-> "empty", ports |-> <<>>], [kind |-> "malformed", ports |-> <<>>] }
    \cup { [kind |-> "tree", ports |-> ps] :
             ps \in UNION { [1..n -> PortEls] : n \in 0..MaxPorts } }

\* the body of "for port in root.findall" (lines 176-186)
PortDbRow(out, port) ==
    IF port.ifIndex = None \/ port.portName = None THEN out
    ELSE IF ~IsInt(Strip(port.ifIndex)) THEN out
    ELSE IF Strip(port.portName) = <<>> THEN out
    ELSE DictPut(out, IntOf(Strip(port.ifIndex)), Strip(port.portName))

RECURSIVE PortDbRows(_, _)
PortDbRows(out, ports) ==
    IF ports = <<>> THEN out ELSE PortDbRows(PortDbRow(out, Head(ports)), Tail(ports))

\* _parse_portdb_xml
ParsePortDbXml(xml) ==
    IF xml.kind # "tree" THEN <<>> ELSE PortDbRows(<<>>, xml.ports)

\* context.request.get(portdb_url): raises, answers not OK, answers OK with a
\* body whose text() raises, answers OK with a body
PortDbOutcomes == {"raises", "not_ok", "text_raises", "ok"}

\* the fetch with its failures propagated instead of caught
PortNames_Propagates(out, xml) ==
    IF out = "ok" /\ xml.kind = "tree"
    THEN [map |-> PortDbRows(<<>>, xml.ports), err |-> NoExc]
    ELSE [map |-> <<>>, err |-> "Error"]

\* lines 387-395: the map fetch_mac_table ends up with, and the exception
\* the block lets out (none)
PortNames(out, xml) ==
    [map |-> IF out = "ok" THEN ParsePortDbXml(xml) ELSE <<>>, err |-> NoExc]

\* lines 408-410: (name or str(raw)).strip()
ResolvePort(map, raw) ==
    IF DictHas(map, raw) /\ DictGet(map, raw) # <<>>
    THEN Strip(DictGet(map, raw))
    ELSE Strip(IntToStr(raw))

\* the loop of lines 407-418
ResolveAll(es, map) ==
    [i \in 1..Len(es) |->
        [switch_ip |-> es[i].switch_ip, vlan |-> es[i].vlan, mac |-> es[i].mac,
         port_index |-> ResolvePort(map, es[i].port_index)]]

\* the Dynamic Addresses page as the device serves it
DynChoices ==
    {Absent, <<"1", "0">>}
    \X {Absent, MacA, Bad}
    \X {Absent, <<"5", "2">>}
    \X {<<"7">>}
    \X {Absent, MacB}
    \X {<<"7", "3">>}
    \X {Absent, MacA}

DynPages == { Present(SlotFields(sel)) : sel \in DynChoices }

\* lines 386-395
FetchPortDb ==
    /\ pc = "portdb"
    /\ \E out \in PortDbOutcomes, xml \in XmlDocs :
          /\ out # "ok" => xml.kind = "empty"
          /\ portdb' = [out |-> out, xml |-> xml.kind]
          /\ port_name_by_ifindex' = PortNames(out, xml).map
          /\ exc' = PortNames(out, xml).err
          /\ pc' = IF PortNames(out, xml).err # NoExc
                   THEN ExitTry(PortNames(out, xml).err) ELSE "goto_dyn"
    /\ net_log' = Append(net_log, Get("portdb"))
    /\ frame_urls' = <<>>
    /\ page_url' = UrlNone
    /\ UNCHANGED <<op, nav_out, browser, close_calls, login_acts, prefix, result,
                   login_frames, frame_docs, page_doc, locVars,
                   rows, inputs, entries, fmtVars, sumVars, ngVars, feVars, pollVars>>

\* page.goto(dyn_url) (lines 398-402)
GotoDyn ==
    /\ pc = "goto_dyn"
    /\ \E out \in NavOutcomes :
          /\ nav_out' = out
          /\ exc' = RequiredNav(out)
          /\ pc' = IF RequiredNav(out) # NoExc THEN ExitTry(RequiredNav(out)) ELSE "read_dyn"
    /\ net_log' = Append(net_log, Goto("dyn", 0))
    /\ UNCHANGED <<op, browser, close_calls, login_acts, prefix, result,
                   pageObs, locVars, macVars, fmtVars, sumVars, ngVars, feVars, pollVars>>

\* dyn_html = page.content(); entries = _parse_dynamic_mac_table(...) (lines 404-405)
ReadDyn ==
    /\ pc = "read_dyn"
    /\ \/ /\ exc' = "Error"
          /\ pc' = ExitTry("Error")
          /\ UNCHANGED <<inputs, entries>>
       \/ \E page \in DynPages :
             /\ inputs' = page
             /\ entries' = ParseDynamicMacTable(page, SwitchIp)
             /\ exc' = IF ParseDynamicMacTable(page, SwitchIp).st = "raised"
                       THEN "ValueError" ELSE NoExc
             /\ pc' = IF ParseDynamicMacTable(page, SwitchIp).st = "raised"
                      THEN ExitTry("ValueError") ELSE "resolve"
    /\ nav_out' = "none"
    /\ UNCHANGED <<op, browser, close_calls, net_log, login_acts, prefix, result,
                   pageObs, locVars, portdb, port_name_by_ifindex, rows, fmtVars, sumVars, ngVars,
                   feVars, pollVars>>

\* the loop of lines 407-418, then the end of the try block
Resolve ==
    /\ pc = "resolve"
    /\ rows' = ResolveAll(entries.val, port_name_by_ifindex)
    /\ pc' = ExitTry(NoExc)
    /\ UNCHANGED <<op, nav_out, exc, browser, close_calls, net_log, login_acts, prefix, result,
                   pageObs, locVars, portdb, port_name_by_ifindex, inputs, entries,
                   fmtVars, sumVars, ngVars, feVars, pollVars>>

(* ---- _find_system_summary_html ---- *)

NumCandidates == 11

\* index of the first frame whose content() returns a document that looks
\* like the system summary, 0 when there is none (lines 315-321)
FirstSummaryFrame(docs) ==
    IF \E i \in 1..Len(docs) : Readable(docs[i]) /\ LooksLikeSystemSummary(docs[i])
    THEN Min({i \in 1..Len(docs) : Readable(docs[i]) /\ LooksLikeSystemSummary(docs[i])})
    ELSE 0

\* PlaywrightTimeoutError on a candidate is not caught
AfterProbe_TimeoutRaises(out) ==
    IF out = "timeout" THEN "raise" ELSE IF out = "error" THEN "next" ELSE "read"

\* a navigation error on a candidate is not caught
AfterProbe_ErrorRaises(out) ==
    IF out = "error" THEN "raise" ELSE "read"

\* lines 327-335: after goto returned or timed out the page is read, after
\* another error the loop continues with the next candidate
AfterProbe(out) == IF out = "error" THEN "next" ELSE "read"

\* the frame check of step 2 left out: the candidates are always probed
FrameHit_Never(docs) == 0

\* step 2 (lines 314-323): the frame whose markup is returned, 0 for none
FrameHit(docs) == FirstSummaryFrame(docs)

\* lines 337-340: html = page.content(), "" when it raises
PageContent(doc) == IF Readable(doc) THEN doc ELSE EmptyHtml

\* _find_system_summary_html is called (line 453) and builds its candidate
\* list (lines 285-304); the frames hold the documents docs at that time
LocCall ==
    /\ pc = "loc_call"
    /\ \E docs \in DocViews :
          /\ frame_docs' = docs
          /\ page_doc' = docs[1]
          /\ fp_at_call' = \E i \in 1..Len(docs) : LooksLikeSystemSummary(docs[i])
    /\ frame_urls' = <<>>
    /\ page_url' = UrlNone
    /\ pc' = "loc_home"
    /\ UNCHANGED <<op, nav_out, exc, browser, close_calls, net_log, login_acts, prefix, result,
                   login_frames, loc_i, html, fp_seen, loc_outs, macVars, fmtVars,
                   sumVars, ngVars, feVars, pollVars>>

\* step 1 (lines 307-311): page.goto(home_url), every exception swallowed
LocGotoHome ==
    /\ pc = "loc_home"
    /\ \E out \in NavOutcomes, docs \in DocViews :
          /\ frame_docs' = docs
          /\ page_doc' = docs[1]
    /\ net_log' = Append(net_log, Goto("home", 0))
    /\ pc' = "loc_frames"
    /\ UNCHANGED <<op, nav_out, exc, browser, close_calls, login_acts, prefix, result,
                   login_frames, frame_urls, page_url, locVars, macVars, fmtVars, sumVars, ngVars,
                   feVars, pollVars>>

\* step 2 (lines 314-323)
LocCheckFrames ==
    /\ pc = "loc_frames"
    /\ fp_seen' = (fp_seen \/ \E i \in 1..Len(frame_docs) :
                      Readable(frame_docs[i]) /\ LooksLikeSystemSummary(frame_docs[i]))
    /\ IF FrameHit(frame_docs) # 0
       THEN html' = frame_docs[FrameHit(frame_docs)] /\ pc' = "loc_return" /\ loc_i' = loc_i
       ELSE html' = html /\ pc' = "loc_cand" /\ loc_i' = 1
    /\ UNCHANGED <<op, nav_out, exc, browser, close_calls, net_log, login_acts, prefix, result,
                   pageObs, fp_at_call, loc_outs, macVars, fmtVars, sumVars, ngVars,
                   feVars, pollVars>>

\* the loop goes on after a match and keeps the last matching document
LocProbeCandidate_NoStop ==
    /\ pc = "loc_cand"
    /\ loc_i <= NumCandidates
    /\ net_log' = Append(net_log, Goto("candidate", loc_i))
    /\ loc_i' = loc_i + 1
    /\ \E out \in NavOutcomes, doc \in FrameDocs :
          /\ page_doc' = doc
          /\ loc_outs' = loc_outs \cup {out}
          /\ IF AfterProbe(out) = "read" /\ LooksLikeSystemSummary(PageContent(doc))
             THEN html' = PageContent(doc) /\ fp_seen' = TRUE
             ELSE UNCHANGED <<html, fp_seen>>
    /\ UNCHANGED <<op, nav_out, pc, exc, browser, close_calls, login_acts, prefix, result,
                   login_frames, frame_urls, page_url, frame_docs, fp_at_call,
                   macVars, fmtVars, sumVars, ngVars, feVars, pollVars>>

\* one iteration of "for url in candidates" (lines 326-343)
LocProbeCandidate ==
    /\ pc = "loc_cand"
    /\ loc_i <= NumCandidates
    /\ net_log' = Append(net_log, Goto("candidate", loc_i))
    /\ \E out \in NavOutcomes, doc \in FrameDocs :
          /\ page_doc' = doc
          /\ loc_outs' = loc_outs \cup {out}
          /\ CASE AfterProbe(out) = "raise" ->
                    /\ exc' = "Error" /\ pc' = ExitTry("Error")
                    /\ UNCHANGED <<html, loc_i, fp_seen>>
               [] AfterProbe(out) = "next" ->
                    /\ loc_i' = loc_i + 1
                    /\ UNCHANGED <<exc, pc, html, fp_seen>>
               [] OTHER ->
                    /\ fp_seen' = (fp_seen \/ LooksLikeSystemSummary(PageContent(doc)))
                    /\ exc' = exc
                    /\ IF LooksLikeSystemSummary(PageContent(doc))
                       THEN html' = PageContent(doc) /\ pc' = "loc_return" /\ loc_i' = loc_i
                       ELSE html' = html /\ pc' = pc /\ loc_i' = loc_i + 1
    /\ UNCHANGED <<op, nav_out, browser, close_calls, login_acts, prefix, result,
                   login_frames, frame_urls, page_url, frame_docs, fp_at_call,
                   macVars, fmtVars, sumVars, ngVars, feVars, pollVars>>

\* the candidates are exhausted: return None (line 344)
LocExhausted ==
    /\ pc = "loc_cand"
    /\ loc_i > NumCandidates
    /\ html' = NoHtml
    /\ pc' = "loc_return"
    /\ UNCHANGED <<op, nav_out, exc, browser, close_calls, net_log, login_acts, prefix, result,
                   pageObs, loc_i, fp_at_call, fp_seen, loc_outs, macVars, fmtVars, sumVars, ngVars,
                   feVars, pollVars>>

\* html = _find_system_summary_html(...) is assigned and the try block ends (line 453)
LocReturned ==
    /\ pc = "loc_return"
    /\ pc' = ExitTry(NoExc)
    /\ UNCHANGED <<op, nav_out, exc, browser, close_calls, net_log, login_acts, prefix, result,
                   pageObs, locVars, macVars, fmtVars, sumVars, ngVars, feVars, pollVars>>

(* ---- _parse_system_summary ---- *)

\* _get_input_value: the stripped value of the first input of that name, None
\* when there is no such input, no value attribute or a blank value
GetInputValue(h, name) ==
    IF \A i \in 1..Len(h.fields) : h.fields[i].name # name THEN None
    ELSE LET f == h.fields[Min({i \in 1..Len(h.fields) : h.fields[i].name = name})]
         IN  IF f.value = None THEN None
             ELSE IF Strip(f.value) = <<>> THEN None
             ELSE Strip(f.value)

\* a or b, for values that are None or a non-empty str
OrElse(a, b) == IF a = None \/ a = <<>> THEN b ELSE a

\* str.split()
RECURSIVE Words(_)
Words(s) ==
    LET t == LStrip(s, Whitespace)
    IN  IF t = <<>> THEN <<>>
        ELSE LET n == IF \E k \in 1..Len(t) : t[k] \in Whitespace
                      THEN Min({k \in 1..Len(t) : t[k] \in Whitespace})
                      ELSE Len(t) + 1
             IN  <<SubSeq(t, 1, n - 1)>> \o Words(SubSeq(t, n, Len(t)))

\* " ".join(words)
RECURSIVE JoinSpace(_)
JoinSpace(ws) ==
    IF ws = <<>> THEN <<>>
    ELSE IF Len(ws) = 1 THEN Head(ws)
    ELSE Head(ws) \o <<" ">> \o JoinSpace(Tail(ws))

\* _extract_default_value: the text after "Default value=" up to the next ";"
ExtractDefaultValue(vt) ==
    LET starts == {k \in 1..(Len(vt) - 1) : vt[k] = "Default value=" /\ vt[k + 1] # ";"}
    IN  IF vt = None \/ starts = {} THEN None
        ELSE LET k == Min(starts)
                 ends == {j \in (k + 1)..Len(vt) : vt[j] = ";"}
                 e == IF ends = {} THEN Len(vt) ELSE Min(ends) - 1
             IN  IF Strip(SubSeq(vt, k + 1, e)) = <<>> THEN None
                 ELSE Strip(SubSeq(vt, k + 1, e))

\* a value that is not there is stored as the placeholder
PutIf_Placeholder(out, key, value) ==
    DictPut(out, key, IF value = None \/ value = <<>> THEN <<"N/A">> ELSE value)

\* out[key] = value when value is there
PutIf(out, key, value) ==
    IF value = None \/ value = <<>> THEN out ELSE DictPut(out, key, value)

\* _parse_system_summary
ParseSystemSummary(h) ==
    LET model == OrElse(GetInputValue(h, "sysDescr$scalar"),
                   OrElse(GetInputValue(h, "sysDescr"),
                          GetInputValue(h, "rlPhdUnitGenParamDeviceDescr$repeat?1")))
        fw == OrElse(GetInputValue(h, "rndImage1Version$repeat?1"),
                OrElse(GetInputValue(h, "rndImage2Version$repeat?1"),
                       GetInputValue(h, FpSwVer)))
        serial == OrElse(GetInputValue(h, FpSerial),
                    ExtractDefaultValue(
                        OrElse(GetInputValue(h, "rlPhdUnitGenParamSerialNum$VT"), <<>>)))
        o1 == PutIf(<<>>, "host_name", GetInputValue(h, "sysName"))
        o2 == PutIf(o1, "system_contact", GetInputValue(h, "sysContact"))
        o3 == PutIf(o2, "system_location", GetInputValue(h, "sysLocation"))
        o4 == IF model = None THEN o3
              ELSE DictPut(o3, "model_description", JoinSpace(Words(model)))
        o5 == PutIf(o4, "firmware_version", IF fw = None THEN None ELSE Strip(fw))
    IN  PutIf(o5, "serial_number", IF serial = None THEN None ELSE Strip(serial))

\* the "if not html" test of line 461 left out
SummaryResult_NoCheck(h) ==
    Returned(DictPut(ParseSystemSummary(h), "switch_ip", <<SwitchIp>>))

\* lines 461-466: what fetch_system_summary raises or returns for html = h
SummaryResult(h) ==
    IF h.id \in {"None", "empty"} THEN Raised("RuntimeError")
    ELSE Returned(DictPut(ParseSystemSummary(h), "switch_ip", <<SwitchIp>>))

\* lines 461-466 of fetch_system_summary
SummaryTail ==
    /\ pc = "summary_tail"
    /\ result' = SummaryResult(html)
    /\ pc' = "done"
    /\ UNCHANGED <<op, nav_out, exc, browser, close_calls, net_log, login_acts, prefix,
                   pageObs, locVars, macVars, fmtVars, sumVars, ngVars, feVars, pollVars>>

(* ---- the /sg200/system-summary route of collector.py ---- *)

\* d.pop(k, None)
DictPop(d, k) == SelectSeq(d, LAMBDA kv : kv[1] # k)

\* summary.get(key) is None or blank
Missing(d, key) == ~DictHas(d, key) \/ Strip(DictGet(d, key)) = <<>>

\* collector.py lines 195-205: the uptime key is removed and a missing
\* firmware_version or model_description is set to "N/A"
HttpSystemSummary(summary) ==
    LET d1 == DictPop(summary, "system_uptime_ticks")
        d2 == IF Missing(d1, "firmware_version")
              THEN DictPut(d1, "firmware_version", <<"N/A">>) ELSE d1
    IN  IF Missing(d2, "model_description")
        THEN DictPut(d2, "model_description", <<"N/A">>) ELSE d2

\* the documents the locator can hand to the decoder: for each source field
\* one of a few values, in markup order
SumSlots(sel) ==
    << Input("sysName", sel[1]),
       Input("sysName", sel[2]),
       Input("sysLocation", sel[3]),
       Input("sysDescr$scalar", sel[4]),
       Input("sysDescr", sel[5]),
       Input("rlPhdUnitGenParamDeviceDescr$repeat?1", sel[6]),
       Input("rndImage1Version$repeat?1", sel[7]),
       Input("rndImage2Version$repeat?1", sel[8]),
       Input(FpSwVer, sel[9]),
       Input(FpSerial, sel[10]),
       Input("rlPhdUnitGenParamSerialNum$VT", sel[11]) >>

SumChoices ==
    {Absent, <<" ">>, <<"sw1">>}
    \X {Absent, <<"sw2">>}
    \X {Absent, <<"lab">>}
    \X {Absent, <<"nbsp">>, <<" ", "24-Port", "nbsp", " ", "Switch">>}
    \X {Absent, <<"SG200">>}
    \X {Absent, <<"SG200-26">>}
    \X {Absent, None, <<"1.4.8">>}
    \X {Absent, <<"1.4.7">>}
    \X {Absent, <<" ">>, <<"1.4.0">>}
    \X {Absent, <<" ">>, <<"DNI161702F3">>}
    \X {Absent,
        <<"Type=100", ";", "Default value=", " ", "DNI161702F3", ";">>,
        <<"Default value=", ";", "Type=100">>,
        <<"Default value=", " ", ";", "Default value=", "PSZ1">>}

SumDocs ==
    { Doc("page", SelectSeq(SumSlots(sel), LAMBDA f : f.value # Absent), {FpSerial})
      : sel \in SumChoices }
    \cup {NoHtml}

SumIdle == sum_html = NoHtml /\ sum_out = Unset /\ http_out = Unset

\* sg200_client.py lines 461-466 for html = sum_html
CallSummaryResult ==
    /\ sum_out.st = "unset"
    /\ sum_out' = SummaryResult(sum_html)
    /\ UNCHANGED <<sum_html, http_out, fmtVars, tblVars, ngVars, pipeVars, feVars, pollVars>>

\* collector.py lines 188-207: the route's answer, 500 when the core raised
HttpLayer ==
    /\ sum_out.st # "unset" /\ http_out.st = "unset"
    /\ http_out' = IF sum_out.st = "raised" THEN Raised("500")
                   ELSE Returned(HttpSystemSummary(sum_out.val))
    /\ UNCHANGED <<sum_html, sum_out, fmtVars, tblVars, ngVars, pipeVars, feVars, pollVars>>

-----------------------------------------------------------------------------
(* The HTTP front end: src/collector-1.1/collector.py                      *)
(*                                                                         *)
(* One POST request to one of the three routes, under one security         *)
(* configuration.  An exception that leaves a route function is answered   *)
(* by the framework with status 500.                                       *)

\* chunks of text that hold a character outside ASCII
NonAscii == {"nbsp", "e-acute"}

IsAscii(s) == \A i \in 1..Len(s) : s[i] \notin NonAscii

\* hashlib.sha256(s.encode("utf-8")).hexdigest(): a digest is ASCII and two
\* strings of the model have different digests
Sha256Hex(s) ==
    <<"sha256">> \o [i \in 1..Len(s) |-> IF s[i] \in NonAscii THEN "c3a9" ELSE s[i]]

\* hmac.compare_digest(a, b) on two str raises TypeError unless both are ASCII
CompareDigest(a, b) ==
    IF ~IsAscii(a) \/ ~IsAscii(b) THEN Raised("TypeError")
    ELSE Returned(a = b)

TokenA == <<"tokenA">>
TokenB == <<"tokenB">>

Verdict(ok, status, seen, err) == [ok |-> ok, status |-> status, seen |-> seen, err |-> err]

\* _authorize_request (lines 94-115): ok, the status of the refusal, the
\* configuration values consulted, and the exception that leaves the function
AuthorizeRequest(cfg, req) ==
    LET provided == Strip(req.token)
        seenHash == <<"ALLOWED_IPS", "COLLECTOR_TOKEN_SHA256">>
        seenToken == <<"ALLOWED_IPS", "COLLECTOR_TOKEN_SHA256", "COLLECTOR_TOKEN">>
    IN  IF cfg.allowed_ips # {} /\ (req.remote = <<>> \/ req.remote \notin cfg.allowed_ips)
        THEN Verdict(FALSE, 403, <<"ALLOWED_IPS">>, NoExc)
        ELSE IF cfg.token_sha256 # <<>>
        THEN IF provided = <<>> THEN Verdict(FALSE, 401, seenHash, NoExc)
             ELSE IF CompareDigest(Sha256Hex(provided), cfg.token_sha256).st = "raised"
             THEN Verdict(FALSE, 0, seenHash, "TypeError")
             ELSE IF ~CompareDigest(Sha256Hex(provided), cfg.token_sha256).val
             THEN Verdict(FALSE, 401, seenHash, NoExc)
             ELSE Verdict(TRUE, 0, seenHash, NoExc)
        ELSE IF cfg.token # <<>>
        THEN IF provided = <<>> THEN Verdict(FALSE, 401, seenToken, NoExc)
             ELSE IF CompareDigest(provided, cfg.token).st = "raised"
             THEN Verdict(FALSE, 0, seenToken, "TypeError")
             ELSE IF ~CompareDigest(provided, cfg.token).val
             THEN Verdict(FALSE, 401, seenToken, NoExc)
             ELSE Verdict(TRUE, 0, seenToken, NoExc)
        ELSE Verdict(TRUE, 0, seenToken, NoExc)

\* the scraper function each route loads (lines 157, 187, 229)
Routes ==
    [mac_table |-> "fetch_mac_table", system_summary |-> "fetch_system_summary",
     netgear_access_control |-> "fetch_netgear_devices"]

\* request.get_json(silent=True) or {}: no JSON and an empty value give {}
JsonBody(body) == IF body.kind \in {"none", "empty_list"} THEN [kind |-> "dict", fields |-> <<>>]
                  ELSE body

\* data.get(key)
BodyGet(data, key) == IF DictHas(data.fields, key) THEN DictGet(data.fields, key) ELSE None

\* "not switch_ip or not username or not password" (lines 147, 177, 219)
FieldsMissing(data) ==
    \E key \in {"ip", "user", "pass"} : BodyGet(data, key) \in {None, <<>>}

\* the configurations: allow-list, cleartext token, token hash
FeConfigs ==
    [allowed_ips : {{}, {<<"10.10.10.21">>}},
     token : {<<>>, TokenA},
     token_sha256 : {<<>>, Sha256Hex(TokenA), Sha256Hex(TokenB)}]

FeBodies ==
    {[kind |-> "none"], [kind |-> "empty_list"], [kind |-> "list"]}
    \cup { [kind |-> "dict",
            fields |-> SelectSeq(<<<<"ip", v[1]>>, <<"user", v[2]>>, <<"pass", v[3]>>>>,
                                 LAMBDA kv : kv[2] # Absent)]
           : v \in {Absent, <<>>, <<"v">>} \X {Absent, <<>>, <<"v">>} \X {Absent, <<>>, <<"v">>} }

\* the requests: remote address ("" for none), X-Collector-Token header
\* ("" when absent) and body
FeRequests ==
    [route : DOMAIN Routes,
     remote : {<<>>, <<"10.10.10.21">>, <<"10.9.9.9">>},
     token : {<<>>, <<" ", "tokenA", " ">>, TokenA, TokenB, <<"tokenA", "e-acute">>},
     body : FeBodies]

FeIdle ==
    /\ fe_cfg = <<>> /\ fe_req = <<>> /\ fe_pc = "idle"
    /\ fe_seen = <<>> /\ fe_calls = <<>> /\ fe_resp = 0

\* authorized, error = _authorize_request() (lines 140-142, 170-172, 212-214)
FeAuthorize ==
    /\ fe_pc = "authorize"
    /\ LET a == AuthorizeRequest(fe_cfg, fe_req)
       IN  /\ fe_seen' = a.seen
           /\ fe_resp' = IF a.err # NoExc THEN 500 ELSE IF a.ok THEN 0 ELSE a.status
           /\ fe_pc' = IF a.err = NoExc /\ a.ok THEN "body" ELSE "done"
    /\ UNCHANGED <<fe_cfg, fe_req, fe_calls, fmtVars, tblVars, ngVars, pipeVars, sumVars,
                   pollVars>>

\* the body is read and the three fields are required (lines 144-153): a
\* JSON value that is not an object has no get()
FeReadBody ==
    /\ fe_pc = "body"
    /\ LET data == JsonBody(fe_req.body)
       IN  IF data.kind # "dict" THEN fe_resp' = 500 /\ fe_pc' = "done"
           ELSE IF FieldsMissing(data) THEN fe_resp' = 400 /\ fe_pc' = "done"
           ELSE fe_resp' = 0 /\ fe_pc' = "fetch"
    /\ UNCHANGED <<fe_cfg, fe_req, fe_seen, fe_calls, fmtVars, tblVars, ngVars, pipeVars,
                   sumVars, pollVars>>

\* the scraper is loaded and called (lines 156-163): a failure of
\* _load_scraper, an exception of the scraper, or its return
FeFetch ==
    /\ fe_pc = "fetch"
    /\ \E out \in {"load_error", "raised", "returned"} :
          /\ fe_calls' = IF out = "load_error" THEN fe_calls
                         ELSE Append(fe_calls, Routes[fe_req.route])
          /\ fe_resp' = IF out = "returned" THEN 200 ELSE 500
    /\ fe_pc' = "done"
    /\ UNCHANGED <<fe_cfg, fe_req, fe_seen, fmtVars, tblVars, ngVars, pipeVars, sumVars,
                   pollVars>>

-----------------------------------------------------------------------------
(* The poll script: src/SG200/app/data/sg200_poll.py                       *)
(*                                                                         *)
(* The host runs the script with params and reads response afterwards.     *)
(* The collector is the environment: what it answers to a request is       *)
(* chosen when the script posts it.  A JSON object is a dict, a sequence   *)
(* of <<key, value>>; a key with the value null is left out.               *)

MaxLines == 3

\* raw inventory lines: blank, two well-formed lines, a line with two
\* fields, a line with an empty field
InventoryLines ==
    { <<" ">>,
      <<" ", "10.0.0.1", ",", "admin", ",", " ", "pw1">>,
      <<"10.0.0.2", ",", "admin", ",", "pw2", " ">>,
      <<"10.0.0.3", ",", "admin">>,
      <<"10.0.0.4", ",", " ", ",", "pw4">> }

Inventories == UNION { [1..n -> InventoryLines] : n \in 0..MaxLines }

PollParams ==
    [host : {<<>>, <<"collector">>}, port : {<<>>, <<"8080">>}, inventory : Inventories]

\* entries as the collector's JSON holds them
EntryFull == <<<<"mac", <<"0", "0", ":", "0", "C", ":", "2", "9">>>>, <<"vlan", 1>>,
               <<"port_index", 7>>>>
EntryBare == <<<<"mac", <<"A", "A", "-", "b", "b">>>>>>
EntryNoMac == <<<<"vlan", 1>>, <<"port_index", 7>>>>
EntryEmptyMac == <<<<"mac", <<>>>>, <<"vlan", 2>>>>

\* what requests.post gives: an exception, a status other than 200, or 200
\* with a body that is no JSON, a JSON value that is no object, an object whose
\* "entries" is no list, an object without "entries", or an object with a list
PollResponses ==
    { [kind |-> k, entries |-> <<>>]
        : k \in {"unreachable", "status", "bad_json", "not_object", "not_list", "no_key"} }
    \cup { [kind |-> "list", entries |-> es]
             : es \in {<<>>, <<EntryFull>>, <<EntryNoMac>>,
                       <<EntryEmptyMac, EntryBare>>, <<EntryFull, EntryBare>>} }

\* [ln.strip() for ln in inventory_raw.splitlines() if ln.strip()] (line 35)
StrippedLines(inv) ==
    LET keep == SelectSeq(inv, LAMBDA ln : Strip(ln) # <<>>)
    IN  [i \in 1..Len(keep) |-> Strip(keep[i])]

\* [p.strip() for p in line.split(",")] (line 38)
LineParts(line) ==
    LET ps == Split(line, ",") IN [i \in 1..Len(ps) |-> Strip(ps[i])]

\* the body of "for entry in entries" (lines 106-125): the endpoint appended,
\* if any
Endpoint(entry, switch_ip) ==
    IF ~DictHas(entry, "mac") \/ DictGet(entry, "mac") = <<>> THEN <<>>
    ELSE LET p0 == <<<<"connect_ciscosg200_switch_ip", switch_ip>>>>
             p1 == IF DictHas(entry, "vlan")
                   THEN DictPut(p0, "connect_ciscosg200_vlan", IntToStr(DictGet(entry, "vlan")))
                   ELSE p0
             p2 == IF DictHas(entry, "port_index")
                   THEN DictPut(p1, "connect_ciscosg200_port_index",
                                IntToStr(DictGet(entry, "port_index")))
                   ELSE p1
         IN  << [mac |-> Lower(Remove(Remove(DictGet(entry, "mac"), ":"), "-")),
                 properties |-> p2] >>

RECURSIVE Endpoints(_, _)
Endpoints(es, switch_ip) ==
    IF es = <<>> THEN <<>>
    ELSE Endpoint(Head(es), switch_ip) \o Endpoints(Tail(es), switch_ip)

\* what one inventory line comes to (lines 38-103), given the collector's
\* answer: "ok" with the entries received, the reason the line is skipped, or
\* "raised" when data.get fails on a JSON value that is no object
LineOutcome(line, resp) ==
    IF Len(LineParts(line)) # 3 THEN [kind |-> "invalid_line", entries |-> <<>>]
    ELSE IF \E i \in 1..3 : LineParts(line)[i] = <<>>
    THEN [kind |-> "missing_field", entries |-> <<>>]
    ELSE CASE resp.kind \in {"unreachable", "status", "bad_json", "not_list"} ->
                [kind |-> resp.kind, entries |-> <<>>]
           [] resp.kind = "not_object" -> [kind |-> "raised", entries |-> <<>>]
           [] resp.kind = "no_key" -> [kind |-> "ok", entries |-> <<>>]
           [] OTHER -> [kind |-> "ok", entries |-> resp.entries]

\* a line that fails ends the loop
AfterLine_BreakOnFailure(i, kind) == IF kind = "ok" THEN i + 1 ELSE Len(lines)

\* "continue", or the end of the loop body: the for loop takes the next line
AfterLine(i, kind) == i + 1

PollIdle ==
    /\ params = <<>> /\ lines = <<>> /\ poll_pc = "idle" /\ poll_i = 0
    /\ endpoints = <<>> /\ response = {} /\ poll_log = <<>>

\* lines 9-35: the configuration is checked and the inventory is split
PollStart ==
    /\ poll_pc = "start"
    /\ IF params.host = <<>> \/ params.port = <<>> \/ StrippedLines(params.inventory) = <<>>
       THEN /\ response' = {"error"}
            /\ lines' = lines
            /\ poll_pc' = "done"
       ELSE /\ response' = response
            /\ lines' = StrippedLines(params.inventory)
            /\ poll_pc' = "loop"
    /\ UNCHANGED <<params, poll_i, endpoints, poll_log, fmtVars, tblVars, ngVars, pipeVars,
                   sumVars, feVars>>

\* one iteration of "for line in lines" (lines 37-125)
PollLine ==
    /\ poll_pc = "loop" /\ poll_i < Len(lines)
    /\ \E resp \in PollResponses :
          LET line == lines[poll_i + 1]
              out == LineOutcome(line, resp)
          IN  /\ poll_log' = Append(poll_log, [line |-> poll_i + 1, kind |-> out.kind,
                                               entries |-> out.entries])
              /\ endpoints' = endpoints \o Endpoints(out.entries, LineParts(line)[1])
              /\ IF out.kind = "raised"
                 THEN poll_pc' = "raised" /\ poll_i' = poll_i
                 ELSE poll_pc' = "loop" /\ poll_i' = AfterLine(poll_i, out.kind)
    /\ UNCHANGED <<params, lines, response, fmtVars, tblVars, ngVars, pipeVars, sumVars,
                   feVars>>

\* lines 127-131, after the loop
PollFinish ==
    /\ poll_pc = "loop" /\ poll_i >= Len(lines)
    /\ response' = IF endpoints # <<>> THEN response \cup {"endpoints"}
                   ELSE response \cup {"error"}
    /\ poll_pc' = "done"
    /\ UNCHANGED <<params, lines, poll_i, endpoints, poll_log, fmtVars, tblVars, ngVars,
                   pipeVars, sumVars, feVars>>

-----------------------------------------------------------------------------
PipeIdle ==
    /\ op = "none" /\ pc = "idle" /\ exc = NoExc /\ browser = "none" /\ close_calls = 0
    /\ net_log = <<>> /\ nav_out = "none" /\ login_frames = <<>> /\ login_acts = <<>>
    /\ frame_urls = <<>> /\ page_url = UrlNone /\ prefix = None
    /\ frame_docs = <<>> /\ page_doc = NoHtml /\ loc_i = 0 /\ html = NoHtml
    /\ loc_outs = {}
    /\ fp_at_call = FALSE /\ fp_seen = FALSE
    /\ portdb = [out |-> "none", xml |-> "none"] /\ port_name_by_ifindex = <<>>
    /\ rows = <<>> /\ result = Unset

-----------------------------------------------------------------------------
NgIdle ==
    /\ html_text = <<>> /\ devices = <<>> /\ ng_pc = "idle"
    /\ ng_pos = 0 /\ ng_log = <<>> /\ ng_out = Unset

(* The normalisers applied to every input MacInput(ps, sep, tl) *)
InitFormat ==
    /\ \E n \in 0..MaxPairs, sep \in SepSet, tl \in TailSet :
          \E ps \in [1..n -> PairSet] : mac_in = MacInput(ps, sep, tl)
    /\ fmt_out = Unset /\ norm_out = Unset
    /\ TblIdle /\ NgIdle /\ PipeIdle /\ SumIdle /\ FeIdle /\ PollIdle

NextFormat == CallFormatMac \/ CallNormalizeMac

SpecFormat == InitFormat /\ [][NextFormat]_vars

(* The hidden-field decoder applied to every document of Documents *)
InitTable ==
    /\ inputs \in Documents /\ entries = Unset
    /\ FmtIdle /\ NgIdle /\ PipeIdle /\ SumIdle /\ FeIdle /\ PollIdle

NextTable == CallParseDynamicMacTable

SpecTable == InitTable /\ [][NextTable]_vars

(* The access-control decoder applied to every text of Texts *)
InitNetgear ==
    /\ html_text \in Texts /\ devices = <<>> /\ ng_pc = "devices"
    /\ ng_pos = 0 /\ ng_log = <<>> /\ ng_out = Unset
    /\ FmtIdle /\ TblIdle /\ PipeIdle /\ SumIdle /\ FeIdle /\ PollIdle

NextNetgear == ParseDeviceRow \/ EndDeviceRows \/ ApplyNameRow \/ ReturnDevices

SpecNetgear == InitNetgear /\ [][NextNetgear]_vars

(* fetch_system_summary's decode and the HTTP layer applied to every document of SumDocs *)
InitSummary ==
    /\ sum_html \in SumDocs /\ sum_out = Unset /\ http_out = Unset
    /\ FmtIdle /\ TblIdle /\ NgIdle /\ PipeIdle /\ FeIdle /\ PollIdle

NextSummary == CallSummaryResult \/ HttpLayer

SpecSummary == InitSummary /\ [][NextSummary]_vars

(* One request to the HTTP front end, for every configuration and request *)
InitFrontEnd ==
    /\ fe_cfg \in FeConfigs /\ fe_req \in FeRequests /\ fe_pc = "authorize"
    /\ fe_seen = <<>> /\ fe_calls = <<>> /\ fe_resp = 0
    /\ FmtIdle /\ TblIdle /\ NgIdle /\ PipeIdle /\ SumIdle /\ PollIdle

NextFrontEnd == FeAuthorize \/ FeReadBody \/ FeFetch

SpecFrontEnd == InitFrontEnd /\ [][NextFrontEnd]_vars

(* One run of the poll script, for every configuration *)
InitPoll ==
    /\ params \in PollParams /\ lines = <<>> /\ poll_pc = "start" /\ poll_i = 0
    /\ endpoints = <<>> /\ response = {} /\ poll_log = <<>>
    /\ FmtIdle /\ TblIdle /\ NgIdle /\ PipeIdle /\ SumIdle /\ FeIdle

NextPoll == PollStart \/ PollLine \/ PollFinish

SpecPoll == InitPoll /\ [][NextPoll]_vars

(* One call of fetch_mac_table or of fetch_system_summary *)
Init ==
    /\ op \in {"mac_table", "system_summary"}
    /\ pc = "start" /\ exc = NoExc /\ browser = "none" /\ close_calls = 0
    /\ net_log = <<>> /\ nav_out = "none" /\ login_frames = <<>> /\ login_acts = <<>>
    /\ frame_urls = <<>> /\ page_url = UrlNone /\ prefix = None
    /\ frame_docs = <<>> /\ page_doc = NoHtml /\ loc_i = 0 /\ html = NoHtml
    /\ loc_outs = {}
    /\ fp_at_call = FALSE /\ fp_seen = FALSE
    /\ portdb = [out |-> "none", xml |-> "none"] /\ port_name_by_ifindex = <<>>
    /\ rows = <<>> /\ result = Unset
    /\ FmtIdle /\ TblIdle /\ NgIdle /\ SumIdle /\ FeIdle /\ PollIdle

Next ==
    \/ Launch \/ GotoBase \/ Login \/ Settle \/ Detect
    \/ FetchPortDb \/ GotoDyn \/ ReadDyn \/ Resolve
    \/ LocCall \/ LocGotoHome \/ LocCheckFrames \/ LocProbeCandidate \/ LocExhausted \/ LocReturned
    \/ Finally \/ WithExit \/ SummaryTail

Spec == Init /\ [][Next]_vars

-----------------------------------------------------------------------------
(* Properties of the MAC normalisers (SpecFormat) *)

\* six pairs of lowercase hex digits separated by colons
IsNormalizedMac(m) ==
    /\ Len(m) = 17
    /\ \A k \in 1..17 : IF k % 3 = 0 THEN m[k] = ":" ELSE m[k] \in HexDigits

\* C6: normalising an already-normalised MAC (six lowercase hex pairs separated
\* by colons) gives the same string back, for _format_mac and for _normalize_mac.
C6_NormalizedIsFixpoint ==
    IsNormalizedMac(mac_in) =>
        /\ (fmt_out.st = "returned" => fmt_out.val = mac_in)
        /\ (norm_out.st = "returned" => norm_out.val = mac_in)

C6_Witness ==
    /\ IsNormalizedMac(mac_in)
    /\ fmt_out.st = "returned" /\ fmt_out.val = mac_in
    /\ norm_out.st = "returned" /\ norm_out.val = mac_in

-----------------------------------------------------------------------------
(* Properties of the hidden-field decoder (SpecTable) *)

\* the value the decoder reads from a field: (inp.get("value") or "").strip()
ValueOf(inp) == IF inp.value = None THEN <<>> ELSE Strip(inp.value)

\* positions of the fields of family fam with repeat index idx
FieldsAt(fam, idx) ==
    {i \in 1..Len(inputs) : inputs[i].fam = fam /\ inputs[i].idx = idx}

\* repeat indices that occur in the document
IndicesPresent ==
    {inputs[i].idx : i \in {j \in 1..Len(inputs) :
                              inputs[j].fam \in {FamVlan, FamMac, FamPort}}}

\* 12 hex digits in any letter case
IsMacHex(v) == Len(v) = 12 /\ AllHex(Lower(v))

EntriesAt(idx) ==
    {i \in 1..Len(entries.val) : entries.val[i].idx = idx}

\* the index has exactly one field of each family, each well formed
CompleteTriple(idx) ==
    /\ \A fam \in {FamVlan, FamMac, FamPort} : Cardinality(FieldsAt(fam, idx)) = 1
    /\ \A i \in FieldsAt(FamVlan, idx) :
          IsInt(ValueOf(inputs[i])) /\ IntOf(ValueOf(inputs[i])) > 0
    /\ \A i \in FieldsAt(FamMac, idx) : IsMacHex(ValueOf(inputs[i]))
    /\ \A i \in FieldsAt(FamPort, idx) : IsInt(ValueOf(inputs[i]))

\* the index occurs in one or two of the three families only
PartialTriple(idx) ==
    \E fam \in {FamVlan, FamMac, FamPort} : FieldsAt(fam, idx) = {}

\* C5: once the decoder has been called, every index with a well-formed VLAN,
\* MAC and port field has exactly one entry in the returned list, carrying that
\* index's VLAN, normalised MAC and port, and every index present in only one
\* or two of the families has none.
C5_OneEntryPerCompleteIndex ==
    entries.st # "unset" =>
        \A idx \in IndicesPresent :
            /\ CompleteTriple(idx) =>
                 /\ entries.st = "returned"
                 /\ Cardinality(EntriesAt(idx)) = 1
                 /\ \A i \in EntriesAt(idx) :
                      /\ \A j \in FieldsAt(FamVlan, idx) :
                            entries.val[i].vlan = IntOf(ValueOf(inputs[j]))
                      /\ \A j \in FieldsAt(FamPort, idx) :
                            entries.val[i].port_index = IntOf(ValueOf(inputs[j]))
                      /\ \A j \in FieldsAt(FamMac, idx) :
                            entries.val[i].mac = ColonJoin(Lower(ValueOf(inputs[j])))
            /\ (PartialTriple(idx) /\ entries.st = "returned") => EntriesAt(idx) = {}

\* the value of the last MAC field of the index, the one mac_by_idx keeps
LastMacValue(idx) ==
    ValueOf(inputs[CHOOSE i \in FieldsAt(FamMac, idx) :
                      \A j \in FieldsAt(FamMac, idx) : j <= i])

\* the index has a field of the family whose value int() accepts
HasIntField(fam, idx) ==
    \E i \in FieldsAt(fam, idx) : IsInt(ValueOf(inputs[i]))

\* C7 as stated: every emitted entry has a 12-hex-digit mac in lowercase
\* colon-separated pairs and a positive vlan, and an index whose VLAN, MAC or
\* port value is unparseable has no entry.
C7_Original ==
    entries.st = "returned" =>
        \A i \in 1..Len(entries.val) :
            /\ IsNormalizedMac(entries.val[i].mac)
            /\ entries.val[i].vlan > 0
            /\ HasIntField(FamVlan, entries.val[i].idx)
            /\ HasIntField(FamPort, entries.val[i].idx)
            /\ IsMacHex(LastMacValue(entries.val[i].idx))

\* C7 amended: every emitted entry has an integer vlan, an integer port and a
\* non-empty mac, and the mac is 12 hex digits in lowercase colon-separated
\* pairs whenever the index's MAC field holds 12 hex digits; an index with no
\* VLAN field or no port field that parses as an integer, or whose MAC field is
\* empty, has no entry (dropped, never defaulted).
C7_EntriesParsedOrDropped ==
    entries.st = "returned" =>
        \A i \in 1..Len(entries.val) :
            /\ entries.val[i].vlan \in Int
            /\ entries.val[i].port_index \in Int
            /\ entries.val[i].mac # <<>>
            /\ HasIntField(FamVlan, entries.val[i].idx)
            /\ HasIntField(FamPort, entries.val[i].idx)
            /\ FieldsAt(FamMac, entries.val[i].idx) # {}
            /\ LastMacValue(entries.val[i].idx) # <<>>
            /\ IsMacHex(LastMacValue(entries.val[i].idx))
                 => IsNormalizedMac(entries.val[i].mac)

\* a returned list with an entry of a well-formed index, while another index
\* whose VLAN value is unparseable has been dropped
C7_Witness ==
    /\ entries.st = "returned"
    /\ \E i \in 1..Len(entries.val) : IsNormalizedMac(entries.val[i].mac)
    /\ \E idx \in IndicesPresent :
          /\ FieldsAt(FamVlan, idx) # {} /\ ~HasIntField(FamVlan, idx)
          /\ FieldsAt(FamMac, idx) # {} /\ FieldsAt(FamPort, idx) # {}
          /\ EntriesAt(idx) = {}

-----------------------------------------------------------------------------
(* Properties of the access-control decoder (SpecNetgear) *)

Positions(kind) == {p \in 1..Len(html_text) : html_text[p].kind = kind}

\* the ordinal of the record at position p, as a number
OrdinalAt(p) == DigitsValue(html_text[p].ord)

\* the MAC part of a fact string: 12 hex digits once ":" and "-" are taken out
StrictMacOk(m) ==
    LET h == Remove(Remove(m, ":"), "-")
    IN  Len(h) = 12 /\ AllHex(Lower(h))

\* the fact record at p has its three parts but a MAC that fails the validation
BadMacFact(p) ==
    /\ html_text[p].kind = "device"
    /\ Len(Split(html_text[p].value, "*")) >= 3
    /\ ~StrictMacOk(Strip(Split(html_text[p].value, "*")[3]))

\* the fact record at p has its three parts and a MAC that passes the validation
ValidFact(p) ==
    /\ html_text[p].kind = "device"
    /\ Len(Split(html_text[p].value, "*")) >= 3
    /\ StrictMacOk(Strip(Split(html_text[p].value, "*")[3]))

HasValidFact(n) == \E p \in Positions("device") : OrdinalAt(p) = n /\ ValidFact(p)

\* C8: in the returned list no entry was built from a fact record whose MAC
\* fails the 12-hex-digit validation, an ordinal whose fact records all fail it
\* has no entry even when a name record with that ordinal exists, and every
\* entry's mac is 12 lowercase hex digits in colon-separated pairs.
C8_BadMacFactExcluded ==
    ng_pc = "done" =>
        /\ Len(ng_out.val) = Len(devices)
        /\ \A i \in 1..Len(ng_out.val) :
              /\ ng_out.val[i] = devices[i][2]
              /\ IsNormalizedMac(ng_out.val[i].mac)
              /\ ~BadMacFact(ng_out.val[i].src)
        /\ \A p \in Positions("device") :
              (BadMacFact(p) /\ ~HasValidFact(OrdinalAt(p)))
                  => ~DictHas(devices, OrdinalAt(p))

\* a bad-MAC fact record and a usable name record share an ordinal that has no entry
C8_Witness ==
    /\ ng_pc = "done"
    /\ \E p \in Positions("device"), q \in Positions("name") :
          /\ BadMacFact(p) /\ OrdinalAt(q) = OrdinalAt(p)
          /\ CleanName(html_text[q].value) # <<>>
          /\ ~DictHas(devices, OrdinalAt(p))
    /\ ng_out.val # <<>>

\* C9: every fact record is processed before any name record whatever their
\* order in the text; names never add an ordinal, so every entry comes from a
\* valid fact record of its own ordinal; a name an entry carries is the name of
\* a name record with the entry's ordinal; an ordinal with a name record but no
\* valid fact record has no entry.
C9_FactsThenNamesJoinOnOrdinal ==
    /\ \A i, j \in 1..Len(ng_log) :
          (i < j /\ html_text[ng_log[i]].kind = "name")
              => html_text[ng_log[j]].kind = "name"
    /\ ng_pc \in {"names", "done"} =>
          /\ Positions("device") \subseteq {ng_log[i] : i \in 1..Len(ng_log)}
          /\ \A i \in 1..Len(devices) :
                /\ devices[i][2].src \in Positions("device")
                /\ ValidFact(devices[i][2].src)
                /\ OrdinalAt(devices[i][2].src) = devices[i][1]
                /\ devices[i][2].name # None =>
                      \E q \in Positions("name") :
                          /\ OrdinalAt(q) = devices[i][1]
                          /\ q \in {ng_log[k] : k \in 1..Len(ng_log)}
                          /\ CleanName(html_text[q].value) = devices[i][2].name
          /\ \A q \in Positions("name") :
                ~HasValidFact(OrdinalAt(q)) => ~DictHas(devices, OrdinalAt(q))
    /\ ng_pc = "done" =>
          /\ {ng_log[k] : k \in 1..Len(ng_log)} = 1..Len(html_text)
          /\ Len(ng_log) = Len(html_text)

\* a name record that precedes its fact record in the text is applied to the
\* entry, and a name record of another ordinal without fact record is discarded
C9_Witness ==
    /\ ng_pc = "done"
    /\ \E q \in Positions("name"), p \in Positions("device") :
          /\ q < p /\ OrdinalAt(q) = OrdinalAt(p) /\ ValidFact(p)
          /\ DictHas(devices, OrdinalAt(p))
          /\ DictGet(devices, OrdinalAt(p)).name = CleanName(html_text[q].value)
          /\ DictGet(devices, OrdinalAt(p)).name # <<>>
    /\ \E q \in Positions("name") :
          /\ CleanName(html_text[q].value) # <<>>
          /\ ~DictHas(devices, OrdinalAt(q))

-----------------------------------------------------------------------------
(* Properties of fetch_mac_table and fetch_system_summary *)

\* the try block was entered: its first statement, page.goto(base), was reached
TryEntered == net_log # <<>>

\* C1: browser.close() is invoked exactly once before the call returns or
\* raises on every path that leaves the try block (success, login failure,
\* prefix detection failure, a non-timeout navigation error, a decode
\* failure), it is never invoked twice, and no call ends with the browser
\* still open.
C1_BrowserClosedOnEveryExit ==
    /\ close_calls <= 1
    /\ (pc \in {"with_exit", "summary_tail", "done"} /\ TryEntered) => close_calls = 1
    /\ pc = "done" => (result.st # "unset" /\ browser \in {"closed", "stopped"})

\* a call that ended with the decoder's exception after browser.close()
C1_Witness ==
    /\ pc = "done" /\ result = Raised("ValueError")
    /\ close_calls = 1 /\ browser = "closed"

\* no frame holds a password input
NoPasswordInput(frames) == \A i \in 1..Len(frames) : frames[i].pw = "none"

\* C2: when no frame of the page holds a password input, _perform_login
\* returns without raising and performs no fill, click, key press or wait.
C2_LoginNoOp ==
    [][(pc = "login" /\ NoPasswordInput(login_frames))
          => (login_acts' = <<>> /\ exc' = NoExc /\ pc' = "settle")]_vars

\* _perform_login has returned from a page of two frames without password
\* input, one of them with text inputs and buttons
C2_Witness ==
    /\ pc = "settle" /\ Len(login_frames) = 2 /\ NoPasswordInput(login_frames)
    /\ \E i \in 1..2 : login_frames[i].text /\ login_frames[i].btn
    /\ login_acts = <<>> /\ exc = NoExc

\* the page.goto calls _find_system_summary_html has issued
LocatorGotos == SelectSeq(net_log, LAMBDA c : c.url \in {"home", "candidate"})

\* C3: when no document the page locator reads matches the fingerprint, the
\* locator raises nothing and returns None, whatever the outcomes of its
\* navigations; by then it has navigated to home.htm and to every candidate.
C3_NoMatchReturnsNone ==
    (LocatorGotos # <<>> /\ ~fp_seen) =>
        /\ exc = NoExc
        /\ html = NoHtml
        /\ pc \notin {"loc_frames", "loc_cand"} => Len(LocatorGotos) = 1 + NumCandidates

\* the locator returned None after candidate navigations that succeeded,
\* timed out and failed otherwise
C3_Witness ==
    /\ pc = "loc_return" /\ ~fp_seen /\ html = NoHtml /\ exc = NoExc
    /\ loc_outs = NavOutcomes

\* C4 as stated: when a frame holds the fingerprint at the time the locator
\* is called, the locator returns markup holding the fingerprint and has
\* issued no page.goto.
C4_Original ==
    (pc = "loc_return" /\ fp_at_call) =>
        (LocatorGotos = <<>> /\ LooksLikeSystemSummary(html))

\* C4 amended: the locator first navigates to home.htm; when a frame that is
\* loaded after that navigation holds the fingerprint, the locator returns
\* the markup of the first such frame and issues no further page.goto.
C4_FrameMatchAfterHome ==
    (pc = "loc_return" /\ FirstSummaryFrame(frame_docs) # 0) =>
        /\ html = frame_docs[FirstSummaryFrame(frame_docs)]
        /\ LocatorGotos = << Goto("home", 0) >>

\* a frame held the fingerprint when the locator was called and the second
\* frame loaded after home.htm holds it: that frame's markup is returned
C4_Witness ==
    /\ pc = "loc_return" /\ fp_at_call
    /\ Len(frame_docs) = 2 /\ FirstSummaryFrame(frame_docs) = 2
    /\ html = frame_docs[2] /\ Len(LocatorGotos) = 1

\* the portDB.xml request produced no parsable document
NoPortDb == portdb.out # "ok" \/ portdb.xml # "tree"

\* C10: the rows fetch_mac_table builds are the decoded entries in number,
\* order, vlan, mac and switch_ip; a row's port_index is the name the
\* interface-name map holds for the entry's raw index, and the raw index as a
\* string when the map has none; the portDB.xml step raises nothing, and when
\* its request raises, is not OK or is unparsable every row keeps its raw index.
C10_ResolverNeverFails ==
    /\ (portdb.out # "none" /\ net_log[Len(net_log)].call = "get") =>
          (exc = NoExc /\ pc = "goto_dyn")
    /\ (portdb.out # "none" /\ NoPortDb) => port_name_by_ifindex = <<>>
    /\ (op = "mac_table" /\ exc = NoExc /\ pc \in {"finally", "with_exit", "done"}) =>
          /\ Len(rows) = Len(entries.val)
          /\ \A i \in 1..Len(rows) :
                /\ rows[i].vlan = entries.val[i].vlan
                /\ rows[i].mac = entries.val[i].mac
                /\ rows[i].switch_ip = entries.val[i].switch_ip
                /\ rows[i].port_index =
                      IF DictHas(port_name_by_ifindex, entries.val[i].port_index)
                      THEN DictGet(port_name_by_ifindex, entries.val[i].port_index)
                      ELSE IntToStr(entries.val[i].port_index)
                /\ NoPortDb => rows[i].port_index = IntToStr(entries.val[i].port_index)
          /\ pc = "done" => result = Returned(rows)

\* a returned table with one port resolved to its name and one left as its
\* raw index
C10_Witness ==
    /\ pc = "done" /\ op = "mac_table" /\ result = Returned(rows)
    /\ \E i, j \in 1..Len(rows) :
          /\ rows[i].port_index = <<"GE1">> /\ entries.val[i].port_index = 52
          /\ rows[j].port_index = <<"7", "3">> /\ entries.val[j].port_index = 73

\* C11: when the page locator returned a page matching the fingerprint from
\* which _parse_system_summary extracts no field, fetch_system_summary raises
\* instead of returning a mapping.
C11_EmptyDecodeFails ==
    (op = "system_summary" /\ pc = "done" /\ exc = NoExc
        /\ LooksLikeSystemSummary(html) /\ ParseSystemSummary(html) = <<>>)
        => result.st = "raised"

\* no repeat index of the page read has a field in each of the three families
NoCompleteRecord == \A idx \in IndicesPresent : PartialTriple(idx)

\* C12: when login and prefix detection succeeded and the Dynamic Addresses
\* page that was read holds no complete record, fetch_mac_table raises
\* nothing and returns the empty list.
C12_EmptyTableIsSuccess ==
    (op = "mac_table" /\ entries.st # "unset" /\ NoCompleteRecord) =>
        /\ exc = NoExc
        /\ pc = "done" => result = Returned(<<>>)

\* C13: when the page locator returned None, the locator itself raised
\* nothing and fetch_system_summary, after leaving the browser session,
\* raises RuntimeError; it never returns a mapping.
C13_PageNotFoundEscalates ==
    (op = "system_summary" /\ LocatorGotos # <<>> /\ html = NoHtml
        /\ pc \in {"loc_return", "finally", "with_exit", "summary_tail", "done"}) =>
        /\ exc = NoExc
        /\ pc # "done" => result = Unset
        /\ pc = "done" => (result = Raised("RuntimeError") /\ close_calls = 1)

\* the call ended with RuntimeError after a locator that probed every candidate
C13_Witness ==
    /\ op = "system_summary" /\ pc = "done" /\ html = NoHtml
    /\ Len(LocatorGotos) = 1 + NumCandidates
    /\ result = Raised("RuntimeError")

-----------------------------------------------------------------------------
(* Properties of the system summary mapping (SpecSummary) *)

\* the names of the inputs each key of the mapping is read from
SummarySources ==
    << <<"host_name", {"sysName"}>>,
       <<"system_contact", {"sysContact"}>>,
       <<"system_location", {"sysLocation"}>>,
       <<"model_description",
         {"sysDescr$scalar", "sysDescr", "rlPhdUnitGenParamDeviceDescr$repeat?1"}>>,
       <<"firmware_version",
         {"rndImage1Version$repeat?1", "rndImage2Version$repeat?1", FpSwVer}>>,
       <<"serial_number", {FpSerial, "rlPhdUnitGenParamSerialNum$VT"}>> >>

\* every input of the document with one of the names has no value or a blank one
AllBlank(h, names) ==
    \A i \in 1..Len(h.fields) :
        h.fields[i].name \in names =>
            (h.fields[i].value = None
                \/ \A k \in 1..Len(h.fields[i].value) : h.fields[i].value[k] \in Whitespace)

\* a non-empty string without surrounding blanks that is not the placeholder
ProperValue(v) ==
    /\ v # <<>> /\ v # None /\ v # <<"N/A">>
    /\ v[1] \notin Whitespace /\ v[Len(v)] \notin Whitespace

\* C14: in the mapping fetch_system_summary returns every key maps to a
\* non-empty string that is not the placeholder "N/A", and a key whose source
\* inputs are all absent or blank is omitted; the HTTP layer alone sets
\* firmware_version and model_description to "N/A", exactly when the core
\* omitted them, and hands every other key on unchanged.
C14_SparseSummary ==
    /\ sum_out.st = "returned" =>
          /\ \A i \in 1..Len(sum_out.val) : ProperValue(sum_out.val[i][2])
          /\ \A i \in 1..Len(SummarySources) :
                AllBlank(sum_html, SummarySources[i][2])
                    => ~DictHas(sum_out.val, SummarySources[i][1])
          /\ \A i \in 1..Len(sum_out.val) :
                sum_out.val[i][1] \in
                    {"switch_ip"} \cup {SummarySources[k][1] : k \in 1..Len(SummarySources)}
    /\ http_out.st = "returned" =>
          /\ \A key \in {"firmware_version", "model_description"} :
                /\ DictHas(http_out.val, key)
                /\ DictGet(http_out.val, key) =
                      IF DictHas(sum_out.val, key) THEN DictGet(sum_out.val, key)
                      ELSE <<"N/A">>
          /\ \A i \in 1..Len(sum_out.val) :
                DictGet(http_out.val, sum_out.val[i][1]) = sum_out.val[i][2]

\* a document with a host name, blank version inputs and no model input: the
\* core omits firmware_version and model_description, the HTTP layer answers "N/A"
C14_Witness ==
    /\ sum_out.st = "returned" /\ http_out.st = "returned"
    /\ DictHas(sum_out.val, "host_name")
    /\ \E i \in 1..Len(sum_html.fields) : sum_html.fields[i].name = FpSwVer
    /\ ~DictHas(sum_out.val, "firmware_version")
    /\ ~DictHas(sum_out.val, "model_description")
    /\ DictGet(http_out.val, "firmware_version") = <<"N/A">>
    /\ DictGet(http_out.val, "model_description") = <<"N/A">>

-----------------------------------------------------------------------------
(* Properties of prefix detection and of the login *)

\* the frames of urls whose URL holds a /csbXXXXXX/ segment
MatchingFrames(urls) == {i \in 1..Len(urls) : CsbMatches(urls[i]) # {}}

\* C15: _detect_csb_prefix returns the token of the first frame, in frame
\* order, whose URL matches; it returns the token of the page URL only when
\* no frame URL matches; when nothing matches it raises RuntimeError and no
\* token is returned.
C15_FirstMatchingFrameUrl ==
    [][pc = "detect" =>
          IF MatchingFrames(frame_urls') # {}
          THEN /\ prefix' = CsbOf(frame_urls'[Min(MatchingFrames(frame_urls'))])
               /\ exc' = NoExc /\ pc' \in {"portdb", "loc_call"}
          ELSE IF CsbMatches(page_url') # {}
          THEN /\ prefix' = CsbOf(page_url')
               /\ exc' = NoExc /\ pc' \in {"portdb", "loc_call"}
          ELSE /\ prefix' = None /\ exc' = "RuntimeError" /\ pc' = "finally"]_vars

\* the first frame URL does not match, the second and the page URL match with
\* different tokens: the second frame's token was returned
C15_Witness ==
    /\ pc = "portdb" /\ Len(frame_urls) = 2
    /\ MatchingFrames(frame_urls) = {2}
    /\ CsbMatches(page_url) # {} /\ CsbOf(page_url) # CsbOf(frame_urls[2])
    /\ prefix = CsbOf(frame_urls[2])

\* the first frame in which the password selector finds an input
FirstPasswordFrame ==
    login_frames[Min({i \in 1..Len(login_frames) : login_frames[i].pw = "found"})]

\* _perform_login is about to run on a page with a login frame whose password
\* input is found again at line 57
LoginFrameFound ==
    /\ pc = "login"
    /\ \E i \in 1..Len(login_frames) : login_frames[i].pw = "found"
    /\ FirstPasswordFrame.pw2 = "found"

\* C16: with a password input and an identity input in the login frame,
\* _perform_login performs exactly four actions in this order: fill the
\* identity input, fill the password input, one submit action, the wait; the
\* submit action is a click on the submit control when the frame has one and
\* an Enter key press on the password input otherwise.
C16_LoginActionOrder ==
    [][(LoginFrameFound /\ (FirstPasswordFrame.text \/ FirstPasswordFrame.other)) =>
          /\ exc' = NoExc /\ pc' = "settle"
          /\ Len(login_acts') = 4
          /\ login_acts'[1].act = "fill"
          /\ login_acts'[1].target \in {"text_input", "first_other_input"}
          /\ login_acts'[2] = Act("fill", "password")
          /\ login_acts'[3] = IF FirstPasswordFrame.btn
                              THEN Act("click", "submit_control")
                              ELSE Act("press_Enter", "password")
          /\ login_acts'[4] = Act("wait_for_timeout", "4000")]_vars

\* a login in the second frame, which has no submit control: Enter was pressed
C16_Witness ==
    /\ pc = "settle" /\ Len(login_frames) = 2
    /\ login_frames[1].pw # "found" /\ login_frames[2].pw = "found"
    /\ ~login_frames[2].btn
    /\ Len(login_acts) = 4 /\ login_acts[3] = Act("press_Enter", "password")

\* C17: in the login frame the identity input is the text/email input when
\* there is one, otherwise the first input that is not the password input;
\* when there is neither, _perform_login raises RuntimeError and has
\* performed no fill, click or key press.
C17_IdentityLookup ==
    [][LoginFrameFound =>
          /\ FirstPasswordFrame.text =>
                (exc' = NoExc /\ login_acts'[1] = Act("fill", "text_input"))
          /\ (~FirstPasswordFrame.text /\ FirstPasswordFrame.other) =>
                (exc' = NoExc /\ login_acts'[1] = Act("fill", "first_other_input"))
          /\ (~FirstPasswordFrame.text /\ ~FirstPasswordFrame.other) =>
                (exc' = "RuntimeError" /\ login_acts' = <<>> /\ pc' = "finally")]_vars

\* a login frame with a password input and a button but no other input: the
\* login raised before any action
C17_Witness ==
    /\ pc = "finally" /\ exc = "RuntimeError" /\ login_frames # <<>>
    /\ \E i \in 1..Len(login_frames) : login_frames[i].pw = "found"
    /\ FirstPasswordFrame.pw2 = "found"
    /\ ~FirstPasswordFrame.text /\ ~FirstPasswordFrame.other /\ FirstPasswordFrame.btn
    /\ login_acts = <<>>

-----------------------------------------------------------------------------
(* Properties of the order of the requests *)

\* a request to a URL built from the prefix
Prefixed(c) == c.url \in {"portdb", "dyn", "home", "candidate"}

\* C18: the first request is the navigation to the base URL and it is issued
\* once; the login acts after it; a token is detected only after the login
\* step; no request to a prefixed URL (portDB.xml, the Dynamic Addresses
\* page, home.htm, a candidate) is in the log while no token has been
\* returned; when detection fails the call raises RuntimeError and the base
\* navigation is the only request issued.
C18_PipelineOrder ==
    /\ net_log # <<>> =>
          /\ net_log[1] = Goto("base", 0)
          /\ \A k \in 2..Len(net_log) : Prefixed(net_log[k])
    /\ login_acts # <<>> => net_log # <<>>
    /\ pc \in {"start", "goto_base", "login", "settle", "detect"} =>
          (prefix = None /\ Len(net_log) <= 1)
    /\ (\E k \in 1..Len(net_log) : Prefixed(net_log[k])) => prefix # None
    /\ (pc = "done" /\ TryEntered /\ prefix = None) =>
          (result.st = "raised" /\ net_log = << Goto("base", 0) >>)

\* the login was performed, detection failed and the call raised after the
\* base navigation alone
C18_Witness ==
    /\ pc = "done" /\ prefix = None /\ login_acts # <<>>
    /\ result = Raised("RuntimeError")
    /\ net_log = << Goto("base", 0) >>

\* the navigations to candidate URLs, in the order issued
CandidateGotos == SelectSeq(net_log, LAMBDA c : c.url = "candidate")

\* C19: candidates are navigated only when no frame loaded after home.htm
\* matches, in list order and each at most once; while the search goes on no
\* document read has matched; when a candidate's document matches, the search
\* stops there: that document's markup is returned and the last candidate
\* navigated is the matching one.
C19_CandidatesInOrderUntilMatch ==
    LET cands == CandidateGotos
    IN  /\ Len(cands) <= NumCandidates
        /\ \A k \in 1..Len(cands) : cands[k].n = k
        /\ cands # <<>> =>
              (FirstSummaryFrame(frame_docs) = 0 /\ LocatorGotos[1] = Goto("home", 0))
        /\ pc = "loc_cand" =>
              (html = NoHtml /\ ~fp_seen /\ Len(cands) = loc_i - 1)
        /\ (pc \in {"loc_return", "finally", "with_exit", "summary_tail", "done"}
              /\ cands # <<>> /\ html # NoHtml) =>
              /\ html = page_doc /\ LooksLikeSystemSummary(html)
              /\ Len(cands) = loc_i

\* the third candidate's document matched and was returned after three
\* candidate navigations
C19_Witness ==
    /\ pc = "loc_return" /\ Len(CandidateGotos) = 3 /\ loc_i = 3
    /\ LooksLikeSystemSummary(html) /\ html = page_doc

-----------------------------------------------------------------------------
(* Required navigations that time out *)

\* C21: a timeout on a required step is tolerated.  When page.goto of the
\* device root times out, the call goes on to _perform_login with no
\* exception pending, and the login is performed; when page.goto of the
\* dynamic-address page times out, fetch_mac_table goes on to read the current
\* document and decodes what it reads.  Neither timeout raises by itself.
C21_RequiredTimeoutTolerated ==
    [][/\ (pc = "goto_base" /\ nav_out' = "timeout")
            => (pc' = "login" /\ exc' = NoExc /\ result' = Unset)
       /\ (pc = "login" /\ nav_out = "timeout")
            => /\ login_acts' = PerformLogin(login_frames).acts
               /\ PerformLogin(login_frames).err = NoExc => pc' = "settle"
       /\ (pc = "goto_dyn" /\ nav_out' = "timeout")
            => (pc' = "read_dyn" /\ exc' = NoExc /\ result' = Unset)
       /\ (pc = "read_dyn" /\ nav_out = "timeout")
            => \/ exc' = "Error"
               \/ entries' = ParseDynamicMacTable(inputs', SwitchIp)]_vars

\* the root navigation timed out and the login form was then filled in
C21_Witness ==
    /\ pc = "settle" /\ nav_out = "timeout" /\ exc = NoExc
    /\ login_acts # <<>>
    /\ net_log = <<Goto("base", 0)>>

-----------------------------------------------------------------------------
(* Order of the decoded entries (SpecTable) *)

\* C22: the entries _parse_dynamic_mac_table returns are in ascending numeric
\* order of their repeat index (index 2 before index 10), whatever the order
\* of the hidden fields in the markup.
C22_EntriesInNumericIndexOrder ==
    entries.st = "returned" =>
        \A i, j \in 1..Len(entries.val) :
            i < j => IntOf(entries.val[i].idx) <= IntOf(entries.val[j].idx)

\* the fields of index 10 precede those of index 2 in the markup, and the
\* entry of index 2 precedes the entry of index 10 in the result
C22_Witness ==
    /\ entries.st = "returned" /\ Len(entries.val) = 2
    /\ entries.val[1].idx = <<"2">> /\ entries.val[2].idx = <<"1", "0">>
    /\ \A i \in FieldsAt(FamMac, <<"1", "0">>), j \in FieldsAt(FamMac, <<"2">>) : i < j

-----------------------------------------------------------------------------
(* Malformed MAC values in the hidden-field decoder (SpecTable) *)

\* a non-empty MAC value of odd length or with a character that is not a
\* hexadecimal digit
MalformedMac(v) == v # <<>> /\ (Len(v) % 2 = 1 \/ ~AllHex(Lower(v)))

\* C23: when the MAC field of an index that also has a VLAN and a port is
\* malformed, the decoder still emits the entry, and the entry's mac is the
\* field value trimmed and lower-cased, with no colon inserted.
C23_MalformedMacPassedThrough ==
    entries.st = "returned" =>
        \A idx \in IndicesPresent :
            (/\ FieldsAt(FamMac, idx) # {}
             /\ MalformedMac(LastMacValue(idx))
             /\ HasIntField(FamVlan, idx) /\ HasIntField(FamPort, idx))
            => /\ EntriesAt(idx) # {}
               /\ \A i \in EntriesAt(idx) :
                     entries.val[i].mac = Lower(LastMacValue(idx))

-----------------------------------------------------------------------------
(* Separators in the input of _format_mac (SpecFormat) *)

\* the 12 characters h written in pairs separated by c
SepJoin(h, c) == [k \in 1..17 |-> IF k % 3 = 0 THEN c ELSE h[k - (k \div 3)]]

\* m is a 12-hex-digit MAC in any letter case, written without separator,
\* with ":" between the pairs or with "-" between the pairs
TwelveHexWritten(m) ==
    \/ IsMacHex(m)
    \/ \E c \in {":", "-"} :
          /\ IsMacHex(Remove(m, c))
          /\ m = SepJoin(Remove(m, c), c)

\* C24: for every 12-hex-digit MAC given in any letter case without
\* separators, with ":" separators or with "-" separators, _format_mac returns
\* the same lowercase string with a colon after every two hex digits.
C24_SeparatorsStripped ==
    (fmt_out.st = "returned" /\ TwelveHexWritten(mac_in)) =>
        fmt_out.val = ColonJoin(Lower(Remove(Remove(mac_in, ":"), "-")))

-----------------------------------------------------------------------------
(* Fact strings of the access-control decoder (SpecNetgear) *)

\* the parts of the fact string at position p
PartsAt(p) == Split(html_text[p].value, "*")

\* the documented example: the fact record and the name record of one device
ExampleFact == [kind |-> "device", ord |-> <<"1">>, value |-> Fact4]
ExampleName == [kind |-> "name", ord |-> <<"1">>, value |-> <<"DESKTOP-EXAMPLE">>]
ExampleMac  == <<"0", "0", ":", "0", "c", ":", "2", "9", ":", "b", "2", ":", "9", "4",
                 ":", "c", "0">>

\* C25: a fact string is split on "*" and read positionally as status, ip,
\* mac and optional connection type: every returned entry carries the trimmed
\* status and ip of its fact string, that string's MAC normalised, its trimmed
\* connection type or the empty string when there is no fourth part, and the
\* router address given; an ordinal whose fact strings all have fewer than
\* three parts has no entry.  "Allowed*192.168.1.199*000c29b294c0*wired" with
\* the name "DESKTOP-EXAMPLE" gives exactly one entry: ip 192.168.1.199,
\* mac 00:0c:29:b2:94:c0, status Allowed, conn_type wired, name DESKTOP-EXAMPLE.
C25_FactStringDecoding ==
    ng_pc = "done" =>
        /\ \A i \in 1..Len(ng_out.val) :
              LET e == ng_out.val[i]
              IN  /\ e.src \in Positions("device")
                  /\ Len(PartsAt(e.src)) >= 3
                  /\ e.status = Strip(PartsAt(e.src)[1])
                  /\ e.ip = Strip(PartsAt(e.src)[2])
                  /\ StrictMacOk(Strip(PartsAt(e.src)[3]))
                  /\ e.mac = ColonJoin(Lower(Remove(Remove(Strip(PartsAt(e.src)[3]),
                                                          ":"), "-")))
                  /\ e.conn_type = IF Len(PartsAt(e.src)) > 3
                                   THEN Strip(PartsAt(e.src)[4]) ELSE <<>>
                  /\ e.router_ip = RouterIp
        /\ \A n \in {OrdinalAt(p) : p \in Positions("device")} :
              (\A p \in Positions("device") : OrdinalAt(p) = n => Len(PartsAt(p)) < 3)
                  => \A i \in 1..Len(ng_out.val) : OrdinalAt(ng_out.val[i].src) # n
        /\ html_text = <<ExampleFact, ExampleName>> =>
              /\ Len(ng_out.val) = 1
              /\ ng_out.val[1].ip = <<"192.168.1.199">>
              /\ ng_out.val[1].mac = ExampleMac
              /\ ng_out.val[1].status = <<"Allowed">>
              /\ ng_out.val[1].conn_type = <<"wired">>
              /\ ng_out.val[1].name = <<"DESKTOP-EXAMPLE">>

\* the example's two records followed by a two-part fact string of another
\* ordinal: one entry, the example's
C25_Witness ==
    /\ ng_pc = "done"
    /\ html_text = <<ExampleFact, ExampleName,
                     [kind |-> "device", ord |-> <<"2">>, value |-> Fact2]>>
    /\ Len(ng_out.val) = 1
    /\ ng_out.val[1].mac = ExampleMac /\ ng_out.val[1].name = <<"DESKTOP-EXAMPLE">>
    /\ ng_out.val[1].conn_type = <<"wired">>

-----------------------------------------------------------------------------
(* Gating of the HTTP front end (SpecFrontEnd) *)

\* the client address is in the allow-list, or the allow-list is empty
IpAllowed == fe_cfg.allowed_ips = {} \/ fe_req.remote \in fe_cfg.allowed_ips

\* the token of the request matches the configured hash or, when no hash is
\* configured, the configured token; nothing is required when neither is set
TokenMatches ==
    IF fe_cfg.token_sha256 # <<>>
    THEN Strip(fe_req.token) # <<>> /\ Sha256Hex(Strip(fe_req.token)) = fe_cfg.token_sha256
    ELSE fe_cfg.token # <<>> => Strip(fe_req.token) = fe_cfg.token

\* the body is a JSON object whose ip, user and pass are non-empty
FieldsGiven ==
    /\ fe_req.body.kind = "dict"
    /\ \A key \in {"ip", "user", "pass"} :
          DictHas(fe_req.body.fields, key) /\ DictGet(fe_req.body.fields, key) # <<>>

\* a scraper is invoked only for an allowed address, a matching token and
\* three non-empty fields, and the cleartext token is not consulted when a
\* token hash is configured
ScraperGated ==
    /\ fe_calls # <<>> => (IpAllowed /\ TokenMatches /\ FieldsGiven)
    /\ fe_cfg.token_sha256 # <<>> =>
          \A i \in 1..Len(fe_seen) : fe_seen[i] # "COLLECTOR_TOKEN"
    /\ (fe_pc = "done" /\ ~IpAllowed) =>
          \A i \in 1..Len(fe_seen) : fe_seen[i] = "ALLOWED_IPS"

\* C26: for every request to one of the three routes a scraper is invoked only
\* if the request passed _authorize_request and ip, user and pass are all
\* non-empty; a disallowed address is answered 403 before the token is
\* examined, a missing or wrong token 401, missing fields 400, and in none of
\* these cases a scraper is invoked; with a token hash configured the
\* cleartext token is not consulted.
C26_FrontEndGating ==
    /\ ScraperGated
    /\ fe_pc = "done" =>
          /\ ~IpAllowed => fe_resp = 403
          /\ (IpAllowed /\ ~TokenMatches) => fe_resp = 401
          /\ (IpAllowed /\ TokenMatches /\ ~FieldsGiven) => fe_resp = 400

-----------------------------------------------------------------------------
(* _format_mac applied twice (SpecFormat) *)

\* C27: _format_mac is idempotent on every input, whatever its length and
\* whether it is hexadecimal or not: _format_mac(_format_mac(x)) = _format_mac(x).
C27_FormatMacIdempotent ==
    fmt_out.st = "returned" => FormatMac(fmt_out.val) = fmt_out.val

-----------------------------------------------------------------------------
(* Totality of the hidden-field decoder (SpecTable) *)

\* C28: for every document, fields of a recognised family with a non-numeric
\* or empty repeat index and fields with a non-integer VLAN or port value
\* included, _parse_dynamic_mac_table returns a list and never raises.
C28_DecoderTotal ==
    entries.st # "unset" => entries.st = "returned"

-----------------------------------------------------------------------------
(* One entry per device ordinal (SpecNetgear) *)

\* the ordinals that have a fact record with a valid MAC
ValidOrdinals == {OrdinalAt(p) : p \in {q \in Positions("device") : ValidFact(q)}}

\* C29: parse_access_control_html returns at most one entry per device
\* ordinal.  When several fact records share an ordinal the entry holds the
\* values of the last one with a valid MAC, a later record with an invalid MAC
\* does not remove it, and the number of entries is the number of distinct
\* ordinals that have at least one valid fact record.
C29_OneEntryPerOrdinal ==
    ng_pc = "done" =>
        /\ \A i, j \in 1..Len(ng_out.val) :
              i # j => OrdinalAt(ng_out.val[i].src) # OrdinalAt(ng_out.val[j].src)
        /\ \A i \in 1..Len(ng_out.val) :
              LET e == ng_out.val[i]
              IN  /\ e.src \in Positions("device") /\ ValidFact(e.src)
                  /\ \A p \in Positions("device") :
                        (OrdinalAt(p) = OrdinalAt(e.src) /\ ValidFact(p)) => p <= e.src
                  /\ e.status = Strip(PartsAt(e.src)[1])
                  /\ e.ip = Strip(PartsAt(e.src)[2])
        /\ Len(ng_out.val) = Cardinality(ValidOrdinals)

\* three fact records of one ordinal, valid, valid, invalid: the single entry
\* is built from the second
C29_Witness ==
    /\ ng_pc = "done" /\ Len(html_text) = 3 /\ Len(ng_out.val) = 1
    /\ ValidFact(1) /\ ValidFact(2) /\ BadMacFact(3)
    /\ OrdinalAt(1) = OrdinalAt(2) /\ OrdinalAt(2) = OrdinalAt(3)
    /\ html_text[1].value # html_text[2].value
    /\ ng_out.val[1].src = 2

-----------------------------------------------------------------------------
(* Failure isolation and outcome of the poll script (SpecPoll) *)

\* the ways a line is skipped: wrong field count, empty field, collector
\* unreachable, status other than 200, invalid JSON, "entries" not a list
LineFailures ==
    {"invalid_line", "missing_field", "unreachable", "status", "bad_json", "not_list"}

\* the endpoints of the lines taken so far, from what the collector answered
RECURSIVE EndpointsOfLog(_)
EndpointsOfLog(log) ==
    IF log = <<>> THEN <<>>
    ELSE EndpointsOfLog(SubSeq(log, 1, Len(log) - 1))
         \o Endpoints(log[Len(log)].entries, LineParts(lines[log[Len(log)].line])[1])

\* the entries with a MAC that the successful lines received
EntriesWithMac ==
    {<<i, k>> \in (1..Len(poll_log)) \X (1..2) :
        /\ k <= Len(poll_log[i].entries)
        /\ DictHas(poll_log[i].entries[k], "mac")
        /\ DictGet(poll_log[i].entries[k], "mac") # <<>>}

=============================================================================
